---- MODULE Spec2Model ----
(***************************************************************************)
(* A model of the Balthazar intern dashboard's data core:                  *)
(*   - BalthazarGSheetConnector.process_data   (src/gsheet_connector.py)   *)
(*   - BalthazarVisualizer.prepare_data / create_metric_comparison         *)
(*                                             (src/dashboard_visualizer.py)*)
(*                                                                         *)
(* Python values are modelled as follows.                                  *)
(*   str    a sequence of one-character strings, so that strip, replace,   *)
(*          startswith, "in" and the number parsers are computed on the    *)
(*          characters as Python computes them;                            *)
(*   cell   a record [t, s, n]: t = "str" with text s, or t = "int" with   *)
(*          number n (gspread returns text; the code also accepts ints);   *)
(*   float  an exact decimal [m, e] standing for m / 10^e, normalised so   *)
(*          that equal numbers have equal records (100 = [100,0],          *)
(*          1234.5 = [12345,1], 0.0 = -0.0 = [0,0]);                       *)
(*   list   a sequence; Python index j is element j+1.                     *)
(***************************************************************************)
EXTENDS Integers, Sequences, FiniteSets, TLC

VARIABLES
    data,           \* process_data: the raw grid (list of rows of cells)
    pc,             \* position: "call", "rows", "done", "raised", "viz", "plotted",
                    \* "dashboard", "storage"
    week_row_idx,   \* process_data: index of the header row, -1 if none
    week_cols,      \* process_data: columns of the header mapping
    week_numbers,   \* process_data: weeks of the header mapping
    row_idx,        \* process_data: the row loop's counter
    records,        \* process_data: the records appended so far
    result,         \* process_data: the returned table (a sequence of records)
    returned,       \* the caller: grid and outcome of every earlier call
    self_data,      \* BalthazarVisualizer.data
    category,       \* create_metric_comparison: argument
    x_range,        \* create_metric_comparison: argument, <<>> when None
    weeks,          \* create_metric_comparison: the week axis
    goal_x,         \* create_metric_comparison: weeks of the goal line
    goal_y,         \* create_metric_comparison: values of the goal line
    outcome_x,      \* create_metric_comparison: weeks of the outcome line
    outcome_y,      \* create_metric_comparison: values of the outcome line
    fig,            \* the figure returned: "none", "nodata", "plot"
    method,         \* the method that made it: "none", "metric", "group"
    inverted,       \* the figure's y axis is inverted (ax.invert_yaxis())
    figures,        \* create_summary_dashboard: the categories of every group
    data_is_none,   \* BalthazarVisualizer.data is None (line 35 of app.py)
    data_file,      \* BrowserStorage: the pickle file of the data
    config_file,    \* BrowserStorage: the pickle file of the configuration
    saved_range,    \* the date_range of the last save_data that succeeded
    last_op,        \* the last storage call: what BrowserStorage returned, what
                    \* the BalthazarVisualizer method returned, the caller's branch
    loaded,         \* what load_from_browser returned last
    session_data    \* app.py: 'data' in st.session_state

parseVars == <<data, pc, week_row_idx, week_cols, week_numbers, row_idx, records, result>>
vizVars == <<self_data, category, x_range, weeks, goal_x, goal_y, outcome_x, outcome_y, fig,
             method, inverted, figures>>
storageVars == <<data_is_none, data_file, config_file, saved_range, last_op, loaded,
                 session_data>>
vars == <<data, pc, week_row_idx, week_cols, week_numbers, row_idx, records, result,
          returned, self_data, category, x_range, weeks, goal_x, goal_y, outcome_x,
          outcome_y, fig, method, inverted, figures, data_is_none, data_file, config_file,
          saved_range, last_op, loaded, session_data>>

(***************************************************************************)
(* Python strings                                                          *)
(***************************************************************************)
Whitespace == {" ", "\t", "\n"}

Digits == {"0", "1", "2", "3", "4", "5", "6", "7", "8", "9"}

DigitValue(c) ==
    CASE c = "0" -> 0 [] c = "1" -> 1 [] c = "2" -> 2 [] c = "3" -> 3 [] c = "4" -> 4
      [] c = "5" -> 5 [] c = "6" -> 6 [] c = "7" -> 7 [] c = "8" -> 8 [] c = "9" -> 9

DigitChar(d) ==
    CASE d = 0 -> "0" [] d = 1 -> "1" [] d = 2 -> "2" [] d = 3 -> "3" [] d = 4 -> "4"
      [] d = 5 -> "5" [] d = 6 -> "6" [] d = 7 -> "7" [] d = 8 -> "8" [] d = 9 -> "9"

RECURSIVE LStrip(_)
LStrip(s) == IF s # <<>> /\ Head(s) \in Whitespace THEN LStrip(Tail(s)) ELSE s

RECURSIVE RStrip(_)
RStrip(s) ==
    IF s # <<>> /\ s[Len(s)] \in Whitespace THEN RStrip(SubSeq(s, 1, Len(s) - 1)) ELSE s

\* str.strip()
Strip(s) == RStrip(LStrip(s))

\* str.startswith(p)
StartsWith(s, p) == Len(s) >= Len(p) /\ SubSeq(s, 1, Len(p)) = p

\* str.replace(old, new): every non-overlapping occurrence, left to right
RECURSIVE Replace(_, _, _)
Replace(s, old, new) ==
    IF Len(s) < Len(old) THEN s
    ELSE IF StartsWith(s, old)
         THEN new \o Replace(SubSeq(s, Len(old) + 1, Len(s)), old, new)
         ELSE <<Head(s)>> \o Replace(Tail(s), old, new)

\* sub in s
Contains(s, sub) ==
    \E i \in 1..(Len(s) - Len(sub) + 1) : SubSeq(s, i, i + Len(sub) - 1) = sub

AllDigits(s) == \A i \in 1..Len(s) : s[i] \in Digits

RECURSIVE DigitsValue(_)
DigitsValue(s) ==
    IF s = <<>> THEN 0 ELSE 10 * DigitsValue(SubSeq(s, 1, Len(s) - 1)) + DigitValue(s[Len(s)])

RECURSIVE NatToStr(_)
NatToStr(n) == IF n < 10 THEN <<DigitChar(n)>> ELSE NatToStr(n \div 10) \o <<DigitChar(n % 10)>>

\* str(n) for an int n
IntToStr(n) == IF n < 0 THEN <<"-">> \o NatToStr(0 - n) ELSE NatToStr(n)

HasSign(s) == s # <<>> /\ Head(s) \in {"+", "-"}

Unsigned(s) == IF HasSign(s) THEN Tail(s) ELSE s

\* int(s) for a str s: [ok |-> FALSE] stands for ValueError.  Surrounding
\* whitespace, one sign, then decimal digits.
ParseInt(s) ==
    LET t == Strip(s)
        u == Unsigned(t)
    IN IF u # <<>> /\ AllDigits(u)
       THEN [ok |-> TRUE, v |-> IF Head(t) = "-" THEN 0 - DigitsValue(u) ELSE DigitsValue(u)]
       ELSE [ok |-> FALSE, v |-> 0]

(***************************************************************************)
(* Python floats as exact decimals                                         *)
(***************************************************************************)
RECURSIVE Normalise(_, _)
Normalise(m, e) ==
    IF e > 0 /\ m % 10 = 0 THEN Normalise(m \div 10, e - 1) ELSE [m |-> m, e |-> e]

\* float(n) for an int n
IntToFloat(n) == [m |-> n, e |-> 0]

Zero == IntToFloat(0)

PointAt(u) == CHOOSE i \in 1..Len(u) : u[i] = "."

\* float(s) for a str s: surrounding whitespace, one sign, digits with at
\* most one decimal point and at least one digit.
ParseFloat(s) ==
    LET t == Strip(s)
        u == Unsigned(t)
        neg == t # <<>> /\ Head(t) = "-"
        points == {i \in 1..Len(u) : u[i] = "."}
        ip == IF points = {} THEN u ELSE SubSeq(u, 1, PointAt(u) - 1)
        fp == IF points = {} THEN <<>> ELSE SubSeq(u, PointAt(u) + 1, Len(u))
        mag == DigitsValue(ip \o fp)
    IN IF Cardinality(points) <= 1 /\ AllDigits(ip \o fp) /\ ip \o fp # <<>>
       THEN [ok |-> TRUE, v |-> Normalise(IF neg THEN 0 - mag ELSE mag, Len(fp))]
       ELSE [ok |-> FALSE, v |-> Zero]

(***************************************************************************)
(* Cells                                                                   *)
(***************************************************************************)
StrCell(s) == [t |-> "str", s |-> s, n |-> 0]

IntCell(n) == [t |-> "int", s |-> <<>>, n |-> n]

EmptyCell == StrCell(<<>>)

\* bool(cell)
Truthy(cell) == IF cell.t = "str" THEN cell.s # <<>> ELSE cell.n # 0

\* str(cell)
PyStr(cell) == IF cell.t = "str" THEN cell.s ELSE IntToStr(cell.n)

\* row[j], Python index
At(row, j) == row[j + 1]

(***************************************************************************)
(* BalthazarGSheetConnector.process_data: the week-header row              *)
(***************************************************************************)
ScanRows == 10

MinWeekNumber == 1

MaxWeekNumber == 53

MinHeaderCells == 2

MinHeaderWidth == 2

FirstValueCol == 2

\* the int a header cell parses to (lines 135-139)
WeekNum(cell) == ParseInt(Strip(PyStr(cell)))

\* lines 135-143: the cell is appended to potential_weeks
IsWeekCell(cell) ==
    /\ Truthy(cell)
    /\ cell.t \in {"str", "int"}
    /\ WeekNum(cell).ok
    /\ MinWeekNumber <= WeekNum(cell).v
    /\ WeekNum(cell).v <= MaxWeekNumber

RECURSIVE PotentialWeeksFrom(_, _)
PotentialWeeksFrom(row, j) ==
    IF j >= Len(row) THEN <<>>
    ELSE (IF IsWeekCell(At(row, j)) THEN << <<j, WeekNum(At(row, j)).v>> >> ELSE <<>>)
         \o PotentialWeeksFrom(row, j + 1)

\* lines 131-146: the (column, week) pairs of one row, in column order
potential_weeks(row) == PotentialWeeksFrom(row, 0)

\* a slip: the width of the row is not looked at
IsHeaderRowAnyWidth(row) == Len(potential_weeks(row)) >= MinHeaderCells

\* lines 129 and 148
IsHeaderRow(row) == Len(row) > MinHeaderWidth /\ Len(potential_weeks(row)) >= MinHeaderCells

Min(a, b) == IF a < b THEN a ELSE b

\* lines 128-153: the first header row of data[:10] from index i on, -1 if none
RECURSIVE FindWeekRow(_, _)
FindWeekRow(d, i) ==
    IF i >= Min(ScanRows, Len(d)) THEN -1
    ELSE IF IsHeaderRow(At(d, i)) THEN i
    ELSE FindWeekRow(d, i + 1)

\* a slip: the header's columns counted from 1
HeaderColsFromOne(row) == [k \in 1..Len(potential_weeks(row)) |-> potential_weeks(row)[k][1] + 1]

\* lines 150-151
HeaderCols(row) == [k \in 1..Len(potential_weeks(row)) |-> potential_weeks(row)[k][1]]

HeaderWeeks(row) == [k \in 1..Len(potential_weeks(row)) |-> potential_weeks(row)[k][2]]

\* lines 159-160: list(range(2, len(data[0]))) and list(range(1, len(week_cols) + 1))
DefaultCols(first_row) == [k \in 1..(Len(first_row) - FirstValueCol) |-> k + FirstValueCol - 1]

DefaultWeeks(first_row) == [k \in 1..(Len(first_row) - FirstValueCol) |-> k]

(***************************************************************************)
(* BalthazarGSheetConnector.process_data: one row                          *)
(***************************************************************************)
GoalMarker == <<"M", "å", "l", ":">>

OutcomeMarker == <<"U", "t", "f", "a", "l", "l", ":">>

known_metrics == {
    <<"F", "ö", "r", "s", "ä", "l", "j", "n", "i", "n", "g", " ", "S", "E", "K">>,
    <<"U", "t", "g", "i", "f", "t", "e", "r", " ", "S", "E", "K">>,
    <<"R", "e", "s", "u", "l", "t", "a", "t", " ", "S", "E", "K">>,
    <<"B", "o", "k", "a", "d", "e", " ", "m", "ö", "t", "e", "n">>,
    <<"G", "i", "t", " ", "c", "o", "m", "m", "i", "t", "s">>,
    <<"A", "r", "t", "i", "k", "l", "a", "r", " ", "H", "e", "m", "s", "i", "d", "a", " ", "(", "S", "E", "O", ")">>,
    <<"G", "r", "a", "t", "i", "s", " ", "v", "e", "r", "k", "t", "y", "g", " ", "h", "e", "m", "s", "i", "d", "a", " ", "(", "S", "E", "O", ")">>,
    <<"S", "k", "i", "c", "k", "a", "d", "e", " ", "E", "-", "p", "o", "s", "t">>,
    <<"F", "ä", "r", "d", "i", "g", "a", " ", "m", "o", "m", "e", "n", "t", " ", "p", "r", "o", "d", "u", "k", "t", "i", "o", "n">>,
    <<"L", "å", "n", "g", "a", " ", "Y", "T", " ", "v", "i", "d", "e", "o", "s">>,
    <<"K", "o", "r", "t", "a", " ", "Y", "T", " ", "v", "i", "d", "e", "o", "s">>
}

\* x.strip() on a truthy cell that is no str: AttributeError (lines 179, 182, 260)
StripRaises(cell) == Truthy(cell) /\ cell.t # "str"

\* cell.strip() if cell else ""
LabelOf(cell) == IF Truthy(cell) THEN Strip(cell.s) ELSE <<>>

\* a slip: the decimal comma is replaced, the spaces stay
NormaliseCommaOnly(value) ==
    IF value.t = "str" THEN StrCell(Replace(value.s, <<",">>, <<".">>)) ELSE value

\* lines 199-200
NormaliseValue(value) ==
    IF value.t = "str"
    THEN StrCell(Replace(Replace(value.s, <<",">>, <<".">>), <<" ">>, <<>>))
    ELSE value

\* a slip: only the number 0 is skipped, the text "0" is not
NotZeroNumber(value) == ~(value.t = "int" /\ value.n = 0)

\* a slip: no value is skipped
SkipsNothing(value) == TRUE

\* a slip: every notation of the number zero is skipped
NotZeroValue(value) ==
    /\ ~(value.t = "int" /\ value.n = 0)
    /\ ~(value.t = "str" /\ ParseFloat(value.s).ok /\ ParseFloat(value.s).v = Zero)

\* line 203: value != 0 and value != '0'
NotZeroLiteral(value) ==
    /\ ~(value.t = "int" /\ value.n = 0)
    /\ ~(value.t = "str" /\ value.s = <<"0">>)

\* line 204: float(value); not ok stands for the ValueError caught at line 212
ToFloat(value) ==
    IF value.t = "str" THEN ParseFloat(value.s) ELSE [ok |-> TRUE, v |-> IntToFloat(value.n)]

\* lines 195-213: the records one (col_idx, week_num) pair appends, none or one
CellRecords(row, col_idx, week_num, metric_category, row_type) ==
    IF col_idx < Len(row) /\ Truthy(At(row, col_idx)) /\ At(row, col_idx) # EmptyCell
    THEN LET value == NormaliseValue(At(row, col_idx))
         IN IF NotZeroLiteral(value) /\ ToFloat(value).ok
            THEN << [Date |-> week_num, Category |-> metric_category,
                     Type |-> row_type, Value |-> ToFloat(value).v] >>
            ELSE <<>>
    ELSE <<>>

\* lines 194-213 (and their copies 222-241, 275-294): zip(week_cols, week_numbers)
RECURSIVE ValueRecordsFrom(_, _, _, _, _, _)
ValueRecordsFrom(row, cols, nums, k, metric_category, row_type) ==
    IF k > Min(Len(cols), Len(nums)) THEN <<>>
    ELSE CellRecords(row, cols[k], nums[k], metric_category, row_type)
         \o ValueRecordsFrom(row, cols, nums, k + 1, metric_category, row_type)

ValueRecords(row, cols, nums, metric_category, row_type) ==
    ValueRecordsFrom(row, cols, nums, 1, metric_category, row_type)

\* a slip: the label must be one of the names
IsKnownMetricExact(row_label) == row_label \in known_metrics

\* line 253
IsKnownMetric(row_label) == \E metric \in known_metrics : Contains(row_label, metric)

\* line 259, with r the value of row_idx after the increment of line 173
HasRowAt(d, r) == r < Len(d) /\ At(d, r) # <<>> /\ Len(At(d, r)) > 1

\* lines 256-268, with r the value of row_idx after the increment of line 173
is_goal(d, r, row_label) ==
    IF HasRowAt(d, r + 1)
    THEN LET next_label == LabelOf(At(At(d, r + 1), 1))
         IN IF next_label # <<>> /\ row_label = next_label THEN TRUE
            ELSE IF r > 0 /\ At(d, r - 1) # <<>> /\ Len(At(d, r - 1)) > 1
                 THEN LET prev_label == LabelOf(At(At(d, r - 1), 1))
                      IN ~(prev_label # <<>> /\ row_label = prev_label)
                 ELSE TRUE
    ELSE TRUE

\* line 260 (and 265): .strip() of a label that is no str
InferRaises(d, r) ==
    \/ HasRowAt(d, r + 1) /\ StripRaises(At(At(d, r + 1), 1))
    \/ /\ HasRowAt(d, r + 1)
       /\ r > 0 /\ At(d, r - 1) # <<>> /\ Len(At(d, r - 1)) > 1
       /\ StripRaises(At(At(d, r - 1), 1))

\* line 175: the row is passed over
SkipsRow(d, r, skip_rows) == r <= skip_rows \/ At(d, r - 1) = <<>> \/ Len(At(d, r - 1)) < 2

\* lines 172-294 for the row at index r - 1, r being row_idx after line 173:
\* whether an exception escapes, and the records appended
RowStep(d, r, skip_rows, cols, nums) ==
    LET row == At(d, r - 1)
        NoRecords == [raised |-> FALSE, recs |-> <<>>]
        Raised == [raised |-> TRUE, recs |-> <<>>]
    IN IF SkipsRow(d, r, skip_rows) THEN NoRecords
       ELSE IF StripRaises(At(row, 0)) \/ StripRaises(At(row, 1)) THEN Raised
       ELSE LET row_label == LabelOf(At(row, 1))
            IN IF row_label = <<>> THEN NoRecords
               ELSE IF StartsWith(row_label, GoalMarker)
                    THEN [raised |-> FALSE,
                          recs |-> ValueRecords(row, cols, nums,
                                       Strip(Replace(row_label, GoalMarker, <<>>)), "Mål")]
               ELSE IF StartsWith(row_label, OutcomeMarker)
                    THEN [raised |-> FALSE,
                          recs |-> ValueRecords(row, cols, nums,
                                       Strip(Replace(row_label, OutcomeMarker, <<>>)), "Utfall")]
               ELSE IF IsKnownMetric(row_label)
                    THEN IF InferRaises(d, r) THEN Raised
                         ELSE [raised |-> FALSE,
                               recs |-> ValueRecords(row, cols, nums, row_label,
                                            IF is_goal(d, r, row_label) THEN "Mål" ELSE "Utfall")]
               ELSE NoRecords

(***************************************************************************)
(* BalthazarGSheetConnector.process_data: the call, step by step           *)
(***************************************************************************)
\* a slip: the records of the call before are kept
StaleRecords == records

\* line 166: records = []
FreshRecords == <<>>

\* lines 112-167: the empty-input return, the header search, the default
\* mapping and its give-up return, and the start of the row loop
LocateHeader ==
    /\ pc = "call"
    /\ LET i == FindWeekRow(data, 0)
       IN IF data = <<>>
          THEN /\ pc' = "done"
               /\ result' = <<>>
               /\ week_row_idx' = -1
               /\ week_cols' = <<>>
               /\ week_numbers' = <<>>
          ELSE IF i # -1
          THEN /\ pc' = "rows"
               /\ week_row_idx' = i
               /\ week_cols' = HeaderCols(At(data, i))
               /\ week_numbers' = HeaderWeeks(At(data, i))
               /\ UNCHANGED result
          ELSE IF Len(At(data, 0)) > FirstValueCol
          THEN /\ pc' = "rows"
               /\ week_row_idx' = -1
               /\ week_cols' = DefaultCols(At(data, 0))
               /\ week_numbers' = DefaultWeeks(At(data, 0))
               /\ UNCHANGED result
          ELSE /\ pc' = "done"
               /\ result' = <<>>
               /\ week_row_idx' = -1
               /\ week_cols' = <<>>
               /\ week_numbers' = <<>>
    /\ row_idx' = 0
    /\ records' = FreshRecords
    /\ UNCHANGED <<data, returned, vizVars, storageVars>>

\* lines 171-294: one iteration of the row loop; an exception that escapes
\* ends the call without a result
ProcessRow ==
    /\ pc = "rows"
    /\ row_idx < Len(data)
    /\ LET step == RowStep(data, row_idx + 1, week_row_idx + 1, week_cols, week_numbers)
       IN IF step.raised
          THEN /\ pc' = "raised"
               /\ records' = <<>>
          ELSE /\ pc' = "rows"
               /\ records' = records \o step.recs
    /\ row_idx' = row_idx + 1
    /\ UNCHANGED <<data, week_row_idx, week_cols, week_numbers, result, returned, vizVars, storageVars>>

\* lines 296-307: the loop is over, the records are returned as a table
\* (an empty table when there are none)
Finish ==
    /\ pc = "rows"
    /\ row_idx >= Len(data)
    /\ pc' = "done"
    /\ result' = records
    /\ UNCHANGED <<data, week_row_idx, week_cols, week_numbers, row_idx, records, returned,
                   vizVars, storageVars>>

\* the calls of process_data whose outcome the caller keeps
MaxCalls == 2

\* the caller (app.py, line 292) keeps the outcome of the call that is over
\* and calls process_data again, on the grid g
CallAgain(g) ==
    /\ pc \in {"done", "raised"}
    /\ Len(returned) < MaxCalls
    /\ returned' = Append(returned, [grid |-> data, raised |-> pc = "raised",
                                      result |-> IF pc = "raised" THEN <<>> ELSE result])
    /\ data' = g
    /\ pc' = "call"
    /\ UNCHANGED <<week_row_idx, week_cols, week_numbers, row_idx, records, result, vizVars, storageVars>>

(***************************************************************************)
(* BalthazarVisualizer                                                     *)
(***************************************************************************)
\* the order of sort_values(["Week", "Type"]): "Mål" sorts before "Utfall"
TypeRank(row_type) == IF row_type = "Mål" THEN 0 ELSE 1

SortsBefore(a, b) ==
    \/ a.Date < b.Date
    \/ a.Date = b.Date /\ TypeRank(a.Type) < TypeRank(b.Type)

\* r put into the sorted table t after every row that does not sort after it
RECURSIVE InsertSorted(_, _)
InsertSorted(t, r) ==
    IF t = <<>> THEN <<r>>
    ELSE IF SortsBefore(r, t[Len(t)]) THEN InsertSorted(SubSeq(t, 1, Len(t) - 1), r) \o <<t[Len(t)]>>
    ELSE t \o <<r>>

RECURSIVE SortValues(_)
SortValues(t) ==
    IF t = <<>> THEN <<>> ELSE InsertSorted(SortValues(SubSeq(t, 1, Len(t) - 1)), t[Len(t)])

\* prepare_data: Week is Date, the table is sorted by Week and Type (a
\* stable sort); every Date and Value of the model is a number, so that
\* to_numeric and dropna change nothing
prepare_data(t) == SortValues(t)

\* df[df["Category"] == category]
FilterCategory(t, cat) == SelectSeq(t, LAMBDA r : r.Category = cat)

\* df[(df["Week"] >= start_week) & (df["Week"] <= end_week)]
FilterWeeks(t, start_week, end_week) ==
    SelectSeq(t, LAMBDA r : r.Date >= start_week /\ r.Date <= end_week)

\* df[df["Type"] == row_type]
FilterType(t, row_type) == SelectSeq(t, LAMBDA r : r.Type = row_type)

\* list(range(a, b + 1))
RangeList(a, b) == [k \in 1..(b - a + 1) |-> a + k - 1]

RECURSIVE SeqMin(_)
SeqMin(s) == IF Len(s) = 1 THEN s[1] ELSE Min(s[1], SeqMin(Tail(s)))

RECURSIVE SeqMax(_)
SeqMax(s) == IF Len(s) = 1 THEN s[1] ELSE (IF s[1] > SeqMax(Tail(s)) THEN s[1] ELSE SeqMax(Tail(s)))

WeekColumn(t) == [k \in 1..Len(t) |-> t[k].Date]

\* the value a gap gets: fillna(0)
FillValue == Zero

\* a slip: how="inner", the weeks without a row are dropped
RECURSIVE MergeInner(_, _)
MergeInner(wks, t) ==
    IF wks = <<>> THEN <<>>
    ELSE LET hits == SelectSeq(t, LAMBDA r : r.Date = Head(wks))
         IN [k \in 1..Len(hits) |-> [Week |-> hits[k].Date, Value |-> hits[k].Value]]
            \o MergeInner(Tail(wks), t)

\* a slip: ffill() instead of fillna(0), a gap takes the value before it
RECURSIVE MergeCarry(_, _, _)
MergeCarry(wks, t, carry) ==
    IF wks = <<>> THEN <<>>
    ELSE LET hits == SelectSeq(t, LAMBDA r : r.Date = Head(wks))
         IN IF hits = <<>>
            THEN << [Week |-> Head(wks), Value |-> carry] >> \o MergeCarry(Tail(wks), t, carry)
            ELSE [k \in 1..Len(hits) |-> [Week |-> hits[k].Date, Value |-> hits[k].Value]]
                 \o MergeCarry(Tail(wks), t, hits[Len(hits)].Value)

MergeForwardFill(wks, t) == MergeCarry(wks, t, Zero)

\* pd.merge(pd.DataFrame({"Week": weeks}), df, on="Week", how="left") followed
\* by fillna(0) on Value: for every week of the axis, in order, the rows of
\* df of that week (in df's order), or one row with the fill value
RECURSIVE MergeLeft(_, _)
MergeLeft(wks, t) ==
    IF wks = <<>> THEN <<>>
    ELSE LET hits == SelectSeq(t, LAMBDA r : r.Date = Head(wks))
         IN (IF hits = <<>>
             THEN << [Week |-> Head(wks), Value |-> FillValue] >>
             ELSE [k \in 1..Len(hits) |-> [Week |-> hits[k].Date, Value |-> hits[k].Value]])
            \o MergeLeft(Tail(wks), t)

\* lines 203-214: the week axis
WeekAxis(cat_df, xr) ==
    IF xr # <<>> /\ Len(xr) = 2 THEN RangeList(xr[1], xr[2])
    ELSE RangeList(SeqMin(WeekColumn(cat_df)), SeqMax(WeekColumn(cat_df)))

\* lines 203-214: the rows kept
InRange(cat_df, xr) ==
    IF xr # <<>> /\ Len(xr) = 2 THEN FilterWeeks(cat_df, xr[1], xr[2]) ELSE cat_df

\* lines 220-236: the goal line as rows [Week, Value]
GoalLine(cat_df, wks) ==
    LET goal_df == FilterType(cat_df, "Mål")
    IN IF goal_df # <<>> THEN MergeLeft(wks, goal_df) ELSE <<>>

\* a slip: no zero line when the category has goals and no outcomes
OutcomeLineNoZeros(cat_df, wks) ==
    LET outcome_df == FilterType(cat_df, "Utfall")
    IN IF outcome_df # <<>> THEN MergeLeft(wks, outcome_df) ELSE <<>>

\* lines 238-260: the outcome line as rows [Week, Value]
OutcomeLine(cat_df, wks) ==
    LET outcome_df == FilterType(cat_df, "Utfall")
        goal == GoalLine(cat_df, wks)
    IN IF outcome_df # <<>> THEN MergeLeft(wks, outcome_df)
       ELSE IF goal # <<>> THEN [k \in 1..Len(goal) |-> [Week |-> goal[k].Week, Value |-> Zero]]
       ELSE <<>>

\* str.lower() on the letters of the category names
LowerChar(c) ==
    CASE c = "A" -> "a" [] c = "B" -> "b" [] c = "C" -> "c" [] c = "D" -> "d"
      [] c = "E" -> "e" [] c = "F" -> "f" [] c = "G" -> "g" [] c = "H" -> "h"
      [] c = "I" -> "i" [] c = "J" -> "j" [] c = "K" -> "k" [] c = "L" -> "l"
      [] c = "M" -> "m" [] c = "N" -> "n" [] c = "O" -> "o" [] c = "P" -> "p"
      [] c = "Q" -> "q" [] c = "R" -> "r" [] c = "S" -> "s" [] c = "T" -> "t"
      [] c = "U" -> "u" [] c = "V" -> "v" [] c = "W" -> "w" [] c = "X" -> "x"
      [] c = "Y" -> "y" [] c = "Z" -> "z" [] c = "Å" -> "å" [] c = "Ä" -> "ä"
      [] c = "Ö" -> "ö" [] OTHER -> c

Lower(s) == [i \in 1..Len(s) |-> LowerChar(s[i])]

\* line 217 (and 429): the tokens of a metric where lower is better
LowerIsBetterPatterns ==
    { <<"l", "ä", "g", "r", "e">>, <<"m", "i", "n", "d", "r", "e">>,
      <<"l", "o", "w", "e", "r">>, <<"u", "t", "g", "i", "f", "t", "e", "r">> }

\* a slip: the name is matched as it is written
is_lower_better_cased(cat) == \E pattern \in LowerIsBetterPatterns : Contains(cat, pattern)

\* line 217 (and 429)
is_lower_better(cat) == \E pattern \in LowerIsBetterPatterns : Contains(Lower(cat), pattern)

XOf(line) == [k \in 1..Len(line) |-> line[k].Week]

\* a slip: the values are negated
YOfNegated(line) == [k \in 1..Len(line) |-> [m |-> 0 - line[k].Value.m, e |-> line[k].Value.e]]

YOf(line) == [k \in 1..Len(line) |-> line[k].Value]

\* create_metric_comparison(category, x_range=xr), lines 161-358
CreateMetricComparison(cat, xr) ==
    /\ pc \in {"viz", "plotted"}
    /\ pc' = "plotted"
    /\ self_data' = prepare_data(self_data)
    /\ category' = cat
    /\ x_range' = xr
    /\ method' = "metric"
    /\ LET cat_df == FilterCategory(prepare_data(self_data), cat)
           wks == WeekAxis(cat_df, xr)
           kept == InRange(cat_df, xr)
       IN IF cat_df = <<>>
          THEN /\ fig' = "nodata"
               /\ inverted' = FALSE
               /\ weeks' = <<>>
               /\ goal_x' = <<>>
               /\ goal_y' = <<>>
               /\ outcome_x' = <<>>
               /\ outcome_y' = <<>>
          ELSE /\ fig' = "plot"
               /\ inverted' = is_lower_better(cat)
               /\ weeks' = wks
               /\ goal_x' = XOf(GoalLine(kept, wks))
               /\ goal_y' = YOf(GoalLine(kept, wks))
               /\ outcome_x' = XOf(OutcomeLine(kept, wks))
               /\ outcome_y' = YOf(OutcomeLine(kept, wks))
    /\ UNCHANGED <<data, week_row_idx, week_cols, week_numbers, row_idx, records, result,
                   returned, figures, storageVars>>

\* create_category_group_plots, lines 415-421: the rows kept; when none lies in
\* the range, all of the category's rows are kept
GroupInRange(cat_df, xr) ==
    IF xr # <<>> /\ Len(xr) = 2 /\ FilterWeeks(cat_df, xr[1], xr[2]) # <<>>
    THEN FilterWeeks(cat_df, xr[1], xr[2])
    ELSE cat_df

\* create_category_group_plots, lines 456-484: the outcome line
GroupOutcomeLine(cat_df, wks) ==
    LET outcomes == FilterType(cat_df, "Utfall")
        goals == FilterType(cat_df, "Mål")
    IN IF outcomes # <<>> THEN MergeLeft(wks, outcomes)
       ELSE IF goals # <<>> THEN [k \in 1..Len(wks) |-> [Week |-> wks[k], Value |-> Zero]]
       ELSE <<>>

\* create_category_group_plots([cat], group_name, x_range=xr), lines 360-510:
\* the subplot of one category (each category of the list gets its own, and
\* is computed from self.data alone)
CreateCategoryGroupPlots(cat, xr) ==
    /\ pc \in {"viz", "plotted"}
    /\ pc' = "plotted"
    /\ self_data' = prepare_data(self_data)
    /\ category' = cat
    /\ x_range' = xr
    /\ method' = "group"
    /\ LET cat_df == FilterCategory(prepare_data(self_data), cat)
           wks == WeekAxis(cat_df, xr)
           kept == GroupInRange(cat_df, xr)
       IN IF cat_df = <<>>
          THEN /\ fig' = "nodata"
               /\ inverted' = FALSE
               /\ weeks' = <<>>
               /\ goal_x' = <<>>
               /\ goal_y' = <<>>
               /\ outcome_x' = <<>>
               /\ outcome_y' = <<>>
          ELSE /\ fig' = "plot"
               /\ inverted' = is_lower_better(cat)
               /\ weeks' = wks
               /\ goal_x' = XOf(GoalLine(kept, wks))
               /\ goal_y' = YOf(GoalLine(kept, wks))
               /\ outcome_x' = XOf(GroupOutcomeLine(kept, wks))
               /\ outcome_y' = YOf(GroupOutcomeLine(kept, wks))
    /\ UNCHANGED <<data, week_row_idx, week_cols, week_numbers, row_idx, records, result,
                   returned, figures, storageVars>>

(***************************************************************************)
(* Texts of the grids the model parses                                     *)
(***************************************************************************)
Sales == <<"S", "a", "l", "e", "s">>

Other == <<"O", "t", "h", "e", "r">>

GoalSales == <<"M", "å", "l", ":", " ", "S", "a", "l", "e", "s">>

OutcomeSales == <<"U", "t", "f", "a", "l", "l", ":", " ", "S", "a", "l", "e", "s">>

GoalSalesPadded == <<" ", "M", "å", "l", ":", " ", "S", "a", "l", "e", "s", " ">>

GoalSalesTight == <<"M", "å", "l", ":", "S", "a", "l", "e", "s">>

GoalAlone == <<"M", "å", "l", ":">>

OutcomeAlone == <<"U", "t", "f", "a", "l", "l", ":">>

GoalThenOutcome == <<"M", "å", "l", ":", " ", "U", "t", "f", "a", "l", "l", ":", " ", "X">>

OutcomeThenGoal == <<"U", "t", "f", "a", "l", "l", ":", " ", "M", "å", "l", ":", " ", "X">>

GoalTwice == <<"M", "å", "l", ":", " ", "A", " ", "M", "å", "l", ":", " ", "B">>

OutcomeTwice == <<"U", "t", "f", "a", "l", "l", ":", " ", "A", " ", "U", "t", "f", "a", "l", "l", ":", " ", "B">>

GoalInside == <<"X", " ", "M", "å", "l", ":", " ", "Y">>

GoalLower == <<"m", "å", "l", ":", " ", "S", "a", "l", "e", "s">>

GitCommits == <<"G", "i", "t", " ", "c", "o", "m", "m", "i", "t", "s">>

ResultatSEK == <<"R", "e", "s", "u", "l", "t", "a", "t", " ", "S", "E", "K">>

MyGitCommits == <<"M", "y", " ", "G", "i", "t", " ", "c", "o", "m", "m", "i", "t", "s">>

Note == <<"N", "o", "t", "e">>

Finance == <<"F", "i", "n", "a", "n", "c", "e">>

Title == <<"T", "i", "t", "l", "e">>

GoalX == <<"M", "å", "l", ":", " ", "X">>

TextZero == <<"0">>

TextZeroComma == <<"0", ",", "0">>

TextLocale == <<"1", " ", "2", "3", "4", ",", "5">>

TextWord == <<"a", "b", "c">>

TextPlain == <<"1", "2", "3", "4", ".", "5">>

TextComma == <<"1", ",", "5">>

TextDot == <<"1", ".", "5">>

TextGrouped == <<"1", ",", "2", "3", "4", ".", "5">>

TextZeroSpaced == <<" ", "0">>

TextZeroPadded == <<" ", "0", " ">>

TextZeroDot == <<"0", ".", "0">>

TextZeroZero == <<"0", "0">>

TextMinusZero == <<"-", "0">>

Text5 == <<"5">>

Text10 == <<"1", "0">>

Text20 == <<"2", "0">>

Text15 == <<"1", "5">>

Text17 == <<"1", "7">>

Text15Padded == <<" ", "1", "5", " ">>

(***************************************************************************)
(* BalthazarVisualizer.create_summary_dashboard                            *)
(***************************************************************************)
\* lines 546-554: the allow lists
financial ==
    { <<"F", "ö", "r", "s", "ä", "l", "j", "n", "i", "n", "g", " ", "S", "E", "K", " ", "e", "l", "l", "e", "r", " ", "h", "ö", "g", "r", "e">>,
      <<"U", "t", "g", "i", "f", "t", "e", "r", " ", "S", "E", "K", " ", "e", "l", "l", "e", "r", " ", "l", "ä", "g", "r", "e">>,
      <<"R", "e", "s", "u", "l", "t", "a", "t", " ", "S", "E", "K">> }

productivity ==
    { <<"B", "o", "k", "a", "d", "e", " ", "m", "ö", "t", "e", "n">>,
      <<"G", "i", "t", " ", "c", "o", "m", "m", "i", "t", "s">>,
      <<"A", "r", "t", "i", "k", "l", "a", "r", " ", "H", "e", "m", "s", "i", "d", "a", " ", "(", "S", "E", "O", ")">>,
      <<"G", "r", "a", "t", "i", "s", " ", "v", "e", "r", "k", "t", "y", "g", " ", "h", "e", "m", "s", "i", "d", "a", " ", "(", "S", "E", "O", ")">>,
      <<"S", "k", "i", "c", "k", "a", "d", "e", " ", "E", "-", "p", "o", "s", "t">>,
      <<"F", "ä", "r", "d", "i", "g", "a", " ", "m", "o", "m", "e", "n", "t", " ", "p", "r", "o", "d", "u", "k", "t", "i", "o", "n">> }

content ==
    { <<"L", "å", "n", "g", "a", " ", "Y", "T", " ", "v", "i", "d", "e", "o", "s">>,
      <<"K", "o", "r", "t", "a", " ", "Y", "T", " ", "v", "i", "d", "e", "o", "s">> }

\* lines 609-637: the keys of the returned dict
GroupNames ==
    {"Financial Metrics", "Productivity Metrics", "Content Metrics", "YouTube Statistics",
     "Website Statistics", "Email Statistics", "Customer Statistics", "Other Statistics"}

\* lines 557-559: set(self.data["Category"].unique())
data_categories(t) == {t[i].Category : i \in 1..Len(t)}

\* lines 562-565: the groups by prefix
yt_stats(cats) == {cat \in cats : StartsWith(cat, <<"Y", "T">>)}

website_stats(cats) == {cat \in cats : StartsWith(cat, <<"B", "a", "l", "t", "h", "a", "z", "a", "r">>)}

email_stats(cats) == {cat \in cats : StartsWith(cat, <<"E", "-", "p", "o", "s", "t">>)}

customer_stats(cats) == {cat \in cats : StartsWith(cat, <<"A", "n", "t", "a", "l", " ", "k", "u", "n", "d", "e", "r">>)}

\* line 568
already_included(cats) ==
    financial \cup productivity \cup content \cup yt_stats(cats) \cup website_stats(cats)
      \cup email_stats(cats) \cup customer_stats(cats)

\* a slip: the categories of the other groups are not taken out
other_stats_unfiltered(cats) == cats

\* line 569
other_stats(cats) == cats \ already_included(cats)

\* create_summary_dashboard(x_range=xr), lines 534-639: the categories handed
\* to create_category_group_plots for every group (none when the group has no
\* figure); a list is kept as the set of its members
CreateSummaryDashboard(xr) ==
    /\ pc \in {"viz", "dashboard"}
    /\ pc' = "dashboard"
    /\ self_data' = prepare_data(self_data)
    /\ x_range' = xr
    /\ LET cats == data_categories(prepare_data(self_data))
       IN figures' =
              [g \in GroupNames |->
                  CASE g = "Financial Metrics" -> financial \cap cats
                    [] g = "Productivity Metrics" -> productivity \cap cats
                    [] g = "Content Metrics" -> content \cap cats
                    [] g = "YouTube Statistics" -> yt_stats(cats)
                    [] g = "Website Statistics" -> website_stats(cats)
                    [] g = "Email Statistics" -> email_stats(cats)
                    [] g = "Customer Statistics" -> customer_stats(cats)
                    [] OTHER -> other_stats(cats)]
    /\ UNCHANGED <<data, week_row_idx, week_cols, week_numbers, row_idx, records, result,
                   returned, category, weeks, goal_x, goal_y, outcome_x, outcome_y, fig,
                   method, inverted, storageVars>>

(***************************************************************************)
(* BrowserStorage and the storage methods of BalthazarVisualizer           *)
(***************************************************************************)
\* the ends of a date range: a datetime (a day and the seconds since its
\* midnight), a date, a text (day is the day a "%Y-%m-%d" text names, 0 for a
\* text that names none), or an int
DateTime(day, secs) == [k |-> "datetime", day |-> day, secs |-> secs]

DateOnly(day) == [k |-> "date", day |-> day, secs |-> 0]

DateText(day) == [k |-> "str", day |-> day, secs |-> 0]

IntValue(n) == [k |-> "int", day |-> n, secs |-> 0]

\* line 23: hasattr(x, 'strftime')
HasStrftime(x) == x.k \in {"datetime", "date"}

\* lines 25-26: x.strftime("%Y-%m-%d"), the day without the time
Strftime(x) == DateText(x.day)

\* lines 78-79: datetime.strptime(x, "%Y-%m-%d"); not ok stands for the
\* TypeError or ValueError caught at line 81
Strptime(x) ==
    IF x.k = "str" /\ x.day > 0
    THEN [ok |-> TRUE, v |-> DateTime(x.day, 0)]
    ELSE [ok |-> FALSE, v |-> x]

\* the pickle file: absent, unreadable, or holding a storage object
NoFile == [state |-> "absent", data |-> <<>>, date_range |-> <<>>]

CorruptFile == [state |-> "corrupt", data |-> <<>>, date_range |-> <<>>]

StoredFile(data_df, date_range_str) ==
    [state |-> "ok", data |-> data_df, date_range |-> date_range_str]

\* the ways a write can end: the file is written, it cannot be opened, or it
\* is left empty or cut short; and the ways a removal can end
WriteOutcomes == {"written", "unwritable", "truncated"}

RemoveOutcomes == {"removed", "unremovable"}

\* lines 22-27
date_range_str(date_range) ==
    IF HasStrftime(date_range[1])
    THEN <<Strftime(date_range[1]), Strftime(date_range[2])>>
    ELSE date_range

\* BrowserStorage.save_data, lines 13-52: what it returns and the file it
\* leaves; the strftime of line 26 raises outside the try
save_data(data_df, date_range, io, file) ==
    IF HasStrftime(date_range[1]) /\ ~HasStrftime(date_range[2])
    THEN [ret |-> "raised", file |-> file]
    ELSE CASE io = "written" ->
                [ret |-> "True", file |-> StoredFile(data_df, date_range_str(date_range))]
           [] io = "truncated" -> [ret |-> "False", file |-> CorruptFile]
           [] OTHER -> [ret |-> "False", file |-> file]

\* a slip: the texts of the file are returned as they are
stored_range(date_range) == date_range

\* lines 74-83: the texts of the file are turned back into datetimes
loaded_range(date_range) ==
    IF date_range[1].k = "str" /\ Strptime(date_range[1]).ok /\ Strptime(date_range[2]).ok
    THEN <<Strptime(date_range[1]).v, Strptime(date_range[2]).v>>
    ELSE date_range

NothingLoaded == [none |-> TRUE, data |-> <<>>, date_range |-> <<>>]

\* BrowserStorage.load_data, lines 54-89
load_data(file) ==
    IF file.state = "ok"
    THEN [none |-> FALSE, data |-> file.data, date_range |-> loaded_range(file.date_range)]
    ELSE NothingLoaded

\* BrowserStorage.save_config, lines 91-117
save_config(config, io, file) ==
    CASE io = "written" -> [ret |-> "True", file |-> StoredFile(config, <<>>)]
      [] io = "truncated" -> [ret |-> "False", file |-> CorruptFile]
      [] OTHER -> [ret |-> "False", file |-> file]

\* BrowserStorage.clear_data and clear_config, lines 135-155
clear_file(io, file) ==
    IF file.state = "absent" THEN [ret |-> "True", file |-> file]
    ELSE IF io = "removed" THEN [ret |-> "True", file |-> NoFile]
    ELSE [ret |-> "False", file |-> file]

\* BalthazarVisualizer.save_to_browser, save_config, clear_browser_data and
\* clear_config (lines 1332-1375) end without a return statement
MethodReturn(underlying) == IF underlying = "raised" THEN "raised" ELSE "None"

\* if success: ... else: ...
BranchOn(ret) == IF ret = "True" THEN "success" ELSE IF ret = "raised" THEN "none" ELSE "failure"

Call(name, underlying) ==
    [name |-> name, underlying |-> underlying, ret |-> MethodReturn(underlying),
     branch |-> BranchOn(MethodReturn(underlying))]

NoOp == [name |-> "none", underlying |-> "None", ret |-> "None", branch |-> "none"]

notStorageVars ==
    <<data, pc, week_row_idx, week_cols, week_numbers, row_idx, records, result, returned,
      vizVars>>

\* success = visualizer.save_to_browser(date_range) (test_dashboard.py line
\* 76, app.py line 324); saved_range is the date range of the last save that
\* succeeded while no save or clear has followed it, <<>> when there is none
SaveToBrowser(date_range, io) ==
    /\ pc = "storage"
    /\ IF data_is_none
       THEN /\ last_op' = Call("save_to_browser", "None")
            /\ UNCHANGED <<data_file, saved_range>>
       ELSE LET out == save_data(self_data, date_range, io, data_file)
            IN /\ last_op' = Call("save_to_browser", out.ret)
               /\ data_file' = out.file
               /\ saved_range' = IF out.ret = "True" THEN date_range ELSE <<>>
    /\ UNCHANGED <<data_is_none, config_file, loaded, session_data, notStorageVars>>

\* data, date_range = visualizer.load_from_browser(), and the session takes
\* the data when there is some (app.py lines 57-60)
LoadFromBrowser ==
    /\ pc = "storage"
    /\ loaded' = load_data(data_file)
    /\ last_op' = [name |-> "load_from_browser", underlying |-> "loaded", ret |-> "loaded",
                   branch |-> IF load_data(data_file).none THEN "failure" ELSE "success"]
    /\ session_data' = (session_data \/ ~load_data(data_file).none)
    /\ UNCHANGED <<data_is_none, data_file, config_file, saved_range, notStorageVars>>

\* the 'Clear Saved Data' button, app.py lines 193-201
ClearSavedData(io) ==
    /\ pc = "storage"
    /\ data_file.state # "absent"
    /\ LET out == clear_file(io, data_file)
       IN /\ data_file' = out.file
          /\ last_op' = Call("clear_browser_data", out.ret)
          /\ session_data' = IF MethodReturn(out.ret) = "True" /\ session_data
                             THEN FALSE ELSE session_data
    /\ saved_range' = <<>>
    /\ UNCHANGED <<data_is_none, config_file, loaded, notStorageVars>>

\* the 'Save Configuration' button, app.py lines 156-177
SaveConfiguration(config, io) ==
    /\ pc = "storage"
    /\ LET out == save_config(config, io, config_file)
       IN /\ config_file' = out.file
          /\ last_op' = Call("save_config", out.ret)
    /\ UNCHANGED <<data_is_none, data_file, saved_range, loaded, session_data, notStorageVars>>

\* the 'Clear Configuration' button, main.py lines 93-99
ClearConfiguration(io) ==
    /\ pc = "storage"
    /\ LET out == clear_file(io, config_file)
       IN /\ config_file' = out.file
          /\ last_op' = Call("clear_config", out.ret)
    /\ UNCHANGED <<data_is_none, data_file, saved_range, loaded, session_data, notStorageVars>>

(***************************************************************************)
(* The grids process_data is given                                         *)
(***************************************************************************)
NumValueCols == 2

MaxAdjRows == 4

SeqsUpTo(S, n) == UNION {[1..k -> S] : k \in 0..n}

SeqsFrom1To(S, n) == UNION {[1..k -> S] : k \in 1..n}

\* a header row whose week cells stand in the value columns: "", "", 15, 16, ...
AlignedHeader == <<EmptyCell, EmptyCell>> \o [k \in 1..NumValueCols |-> IntCell(14 + k)]

\* a header row that names week 15 in every value column
RepeatedHeader == <<EmptyCell, EmptyCell>> \o [k \in 1..NumValueCols |-> IntCell(15)]

\* a first row without week numbers, as wide as the value rows
TitleRow == <<StrCell(Title), EmptyCell>> \o [k \in 1..NumValueCols |-> EmptyCell]

ValueCells == {EmptyCell, IntCell(0), IntCell(100), StrCell(TextZero), StrCell(TextZeroComma),
               StrCell(TextLocale), StrCell(TextWord)}

\* the value cells of a row: full width, one cell short (the trailing cells
\* gspread drops), none at all, or one cell beyond the header's columns
ValueTails ==
    [1..NumValueCols -> ValueCells]
      \cup [1..(NumValueCols - 1) -> ValueCells]
      \cup {<<>>}
      \cup {v \o <<IntCell(7)>> : v \in [1..NumValueCols -> ValueCells]}

SecondRows == {<<>>, << <<EmptyCell, StrCell(OutcomeSales), StrCell(Text20)>> >>}

\* one Goal or Outcome row under each kind of first row
ValueGrids ==
    {<<h>> \o << <<EmptyCell, StrCell(l)>> \o v >> \o s :
        h \in {AlignedHeader, RepeatedHeader, TitleRow},
        l \in {GoalSales, OutcomeSales},
        v \in ValueTails,
        s \in SecondRows}

LabelCells ==
    {StrCell(l) : l \in {GoalSales, OutcomeSales, GoalSalesPadded, GoalSalesTight, GoalAlone,
                         OutcomeAlone, GoalThenOutcome, OutcomeThenGoal, GoalTwice,
                         OutcomeTwice, GoalInside, GoalLower, GitCommits, MyGitCommits, Note}}
      \cup {EmptyCell, IntCell(7), IntCell(0)}

\* one row of every label, under every kind of first-column cell
LabelGrids ==
    {<<AlignedHeader, <<c, l, IntCell(10), StrCell(Text20)>> >> :
        c \in {EmptyCell, StrCell(Finance), IntCell(3)}, l \in LabelCells}

AdjRows ==
    {<<EmptyCell, StrCell(GitCommits), IntCell(5)>>,
     <<EmptyCell, StrCell(ResultatSEK), IntCell(6)>>,
     <<EmptyCell, StrCell(Note), IntCell(7)>>,
     <<EmptyCell, IntCell(7), IntCell(8)>>,
     <<EmptyCell>>}

\* runs of rows without a marker, to exercise the Goal/Outcome inference
AdjacencyGrids == {<<AlignedHeader>> \o rows : rows \in SeqsFrom1To(AdjRows, MaxAdjRows)}

HeaderCands ==
    {<<EmptyCell, EmptyCell, IntCell(15), IntCell(16)>>,
     <<EmptyCell, EmptyCell, StrCell(Text17), StrCell(Text15)>>,
     <<IntCell(15), IntCell(16)>>,
     <<EmptyCell, EmptyCell, IntCell(15), StrCell(TextWord)>>,
     <<EmptyCell, EmptyCell, IntCell(0), IntCell(54), IntCell(15)>>,
     <<EmptyCell, StrCell(GoalSales), StrCell(Text5), StrCell(Text10)>>,
     <<EmptyCell, EmptyCell, StrCell(Text15Padded), EmptyCell, IntCell(53), IntCell(1)>>}

LocaleCells ==
    {StrCell(t) : t \in {TextLocale, TextPlain, TextComma, TextDot, TextGrouped, TextZeroSpaced}}

\* one Goal or Outcome row of texts in the notations of a number
LocaleGrids ==
    {<<AlignedHeader, <<EmptyCell, StrCell(l)>> \o v>> :
        l \in {GoalSales, OutcomeSales}, v \in [1..NumValueCols -> LocaleCells]}

\* the notations of zero, and a number that is not zero
ZeroCells ==
    {IntCell(0), IntCell(5)}
      \cup {StrCell(t) : t \in {TextZero, TextZeroPadded, TextZeroComma, TextZeroDot,
                                TextZeroZero, TextMinusZero}}

\* one Goal row, or one row of a known metric, of zeros
ZeroGrids ==
    {<<AlignedHeader, <<EmptyCell, StrCell(l)>> \o v>> :
        l \in {GoalSales, GitCommits}, v \in [1..NumValueCols -> ZeroCells]}

PadCounts == {0, 1, 8, 9, 10}

PadRows == {<<>>, <<EmptyCell, StrCell(Note), EmptyCell>>}

WideGoalRow == <<EmptyCell, StrCell(GoalSales), IntCell(1), IntCell(2), IntCell(3), IntCell(4)>>

\* two candidate header rows after a run of rows that are none, then a Goal row
HeaderGrids ==
    {[k \in 1..n |-> p] \o <<h1, h2, WideGoalRow>> :
        n \in PadCounts, p \in PadRows, h1 \in HeaderCands, h2 \in HeaderCands}

\* the grid of the end-to-end scenario of the specification, section 8
ScenarioGrid ==
    << <<EmptyCell, IntCell(15), IntCell(16), IntCell(17)>>,
       <<EmptyCell, StrCell(GoalSales), IntCell(100), EmptyCell, IntCell(100)>>,
       <<EmptyCell, StrCell(OutcomeSales), IntCell(10), IntCell(20), EmptyCell>> >>

\* the same rows under a header whose weeks stand in the value columns
ScenarioGridAligned ==
    << <<EmptyCell, EmptyCell, IntCell(15), IntCell(16), IntCell(17)>>,
       <<EmptyCell, StrCell(GoalSales), IntCell(100), EmptyCell, IntCell(100)>>,
       <<EmptyCell, StrCell(OutcomeSales), IntCell(10), IntCell(20), EmptyCell>> >>

\* a title row of one cell above a Goal row
ShortFirstRowGrid == << <<StrCell(Title)>>, <<EmptyCell, StrCell(GoalX), StrCell(Text5)>> >>

\* a title row and a Goal row of MaxWeekNumber + 1 value columns, the last of
\* which holds a value
WideDefaultGrid ==
    << <<StrCell(Title), EmptyCell>> \o [k \in 1..(MaxWeekNumber + 1) |-> EmptyCell],
       <<EmptyCell, StrCell(GoalX)>>
           \o [k \in 1..(MaxWeekNumber + 1) |->
                   IF k = MaxWeekNumber + 1 THEN StrCell(Text5) ELSE EmptyCell] >>

\* a row whose label is the name of a section, above a row of a known metric
SectionGrid ==
    <<AlignedHeader,
      <<EmptyCell, StrCell(<<"Y", "T", " ", "s", "t", "a", "t", "s">>), EmptyCell>>,
      <<EmptyCell, StrCell(GitCommits), IntCell(5), IntCell(6)>> >>

ScenarioGrids ==
    {<<>>, ScenarioGrid, ScenarioGridAligned, ShortFirstRowGrid, WideDefaultGrid, SectionGrid}

ParseGrids ==
    ScenarioGrids \cup ValueGrids \cup LabelGrids \cup AdjacencyGrids \cup HeaderGrids
      \cup LocaleGrids \cup ZeroGrids

\* a Goal row under a title row: the default mapping
DefaultMappingGrid ==
    <<TitleRow, <<EmptyCell, StrCell(GoalSales)>> \o [k \in 1..NumValueCols |-> IntCell(100)]>>

\* a row whose label is a number
NumericLabelGrid == <<AlignedHeader, <<EmptyCell, IntCell(7), IntCell(10), StrCell(Text20)>> >>

\* two rows of the same known metric without a marker
PairGrid ==
    <<AlignedHeader, <<EmptyCell, StrCell(GitCommits), IntCell(5)>>,
      <<EmptyCell, StrCell(GitCommits), IntCell(5)>>, <<EmptyCell, StrCell(Note), IntCell(7)>> >>

\* the grids process_data is called on again and again
ReparseGrids ==
    {<<>>, ScenarioGrid, ScenarioGridAligned, ShortFirstRowGrid, DefaultMappingGrid,
     NumericLabelGrid, PairGrid}

(***************************************************************************)
(* The tables the visualizer is given                                      *)
(***************************************************************************)
MaxWeek == 2

MaxObs == 2

Obs(week, cat, row_type, n) ==
    [Date |-> week, Category |-> cat, Type |-> row_type, Value |-> IntToFloat(n)]

SalesObs == {Obs(w, Sales, t, n) : w \in 1..MaxWeek, t \in {"Mål", "Utfall"}, n \in {10, 20}}

OtherObs == {Obs(1, Other, "Mål", 10)}

\* section 8: Goal at weeks 2 and 4, Goal at weeks 1..3 without Outcome, and
\* the four observations of the end-to-end scenario
ScenarioTables ==
    { <<Obs(2, Sales, "Mål", 10), Obs(4, Sales, "Mål", 20)>>,
      <<Obs(1, Sales, "Mål", 10), Obs(2, Sales, "Mål", 20), Obs(3, Sales, "Mål", 10)>>,
      <<Obs(15, Sales, "Mål", 100), Obs(17, Sales, "Mål", 100),
        Obs(15, Sales, "Utfall", 10), Obs(16, Sales, "Utfall", 20)>> }

Tables == SeqsFrom1To(SalesObs \cup OtherObs, MaxObs) \cup ScenarioTables

\* None, the ranges of section 8, one range whose start is after its end, and
\* every range of the weeks of the tables
Ranges ==
    {<<>>, <<1, 3>>, <<1, 5>>, <<15, 17>>, <<2, 1>>}
      \cup {r \in {<<a, b>> : a \in 1..MaxWeek, b \in 1..MaxWeek} : r[1] <= r[2]}

Categories == {Sales, Other}

UtgifterSEK == <<"U", "t", "g", "i", "f", "t", "e", "r", " ", "S", "E", "K">>

LagreUpper == <<"L", "Ä", "G", "R", "E">>

Flower == <<"F", "l", "o", "w", "e", "r">>

Mindre == <<"m", "i", "n", "d", "r", "e">>

Low == <<"L", "o", "w">>

\* names in which a token occurs (in capitals, inside a word, as the whole
\* name) and names in which none does
PolarityNames == {UtgifterSEK, LagreUpper, Flower, Mindre, Low, Sales, ResultatSEK}

\* tables with a Goal, an Outcome, or both for every name
PolarityTables ==
    { SortValues([k \in 1..Len(names) |-> Obs(1, names[k], t, 10)])
        : names \in {<<UtgifterSEK, LagreUpper, Flower, Mindre, Low, Sales, ResultatSEK>>},
          t \in {"Mål", "Utfall"} }
      \cup { <<Obs(1, n, "Mål", 10), Obs(2, n, "Utfall", 20)>> : n \in PolarityNames }

PolarityRanges == {<<>>, <<1, 2>>, <<2, 1>>}

SkickadeEpost == <<"S", "k", "i", "c", "k", "a", "d", "e", " ", "E", "-", "p", "o", "s", "t">>

KortaYTVideos == <<"K", "o", "r", "t", "a", " ", "Y", "T", " ", "v", "i", "d", "e", "o", "s">>

YTViews == <<"Y", "T", " ", "v", "i", "e", "w", "s">>

BalthazarWeb == <<"B", "a", "l", "t", "h", "a", "z", "a", "r", " ", "w", "e", "b">>

EpostSent == <<"E", "-", "p", "o", "s", "t", " ", "s", "e", "n", "t">>

AntalKunder == <<"A", "n", "t", "a", "l", " ", "k", "u", "n", "d", "e", "r">>

\* names of the allow lists, names with the prefix of a group, names with the
\* token of a group elsewhere than at their start, and names of no group
GroupPool ==
    <<ResultatSEK, GitCommits, SkickadeEpost, KortaYTVideos, YTViews, BalthazarWeb, EpostSent,
      AntalKunder, Sales, UtgifterSEK>>

\* a table with one Goal observation for every name of the pool picked
GroupTable(picked) ==
    LET ks == SelectSeq([k \in 1..Len(GroupPool) |-> k], LAMBDA k : k \in picked)
    IN [i \in 1..Len(ks) |-> Obs(1, GroupPool[ks[i]], "Mål", 10)]

GroupTables == {GroupTable(picked) : picked \in SUBSET (1..Len(GroupPool))}

(***************************************************************************)
(* Specifications                                                          *)
(***************************************************************************)
NoCall ==
    /\ week_row_idx = -1
    /\ week_cols = <<>>
    /\ week_numbers = <<>>
    /\ row_idx = 0
    /\ records = <<>>
    /\ result = <<>>
    /\ returned = <<>>

NoPlot ==
    /\ category = <<>>
    /\ x_range = <<>>
    /\ weeks = <<>>
    /\ goal_x = <<>>
    /\ goal_y = <<>>
    /\ outcome_x = <<>>
    /\ outcome_y = <<>>
    /\ fig = "none"
    /\ method = "none"
    /\ inverted = FALSE
    /\ figures = [g \in GroupNames |-> {}]

NoStorage ==
    /\ data_file = NoFile
    /\ config_file = NoFile
    /\ saved_range = <<>>
    /\ last_op = NoOp
    /\ loaded = NothingLoaded
    /\ session_data = FALSE

\* process_data is called on a grid
InitParse ==
    /\ data \in ParseGrids
    /\ pc = "call"
    /\ self_data = <<>>
    /\ NoCall
    /\ NoPlot
    /\ data_is_none = FALSE
    /\ NoStorage

NextParse == LocateHeader \/ ProcessRow \/ Finish

SpecParse == InitParse /\ [][NextParse]_vars

\* process_data is called on a grid, and again after it has returned or raised
InitReparse == InitParse /\ data \in ReparseGrids

NextReparse == NextParse \/ \E g \in ReparseGrids : CallAgain(g)

SpecReparse == InitReparse /\ [][NextReparse]_vars

\* a BalthazarVisualizer is constructed on a table
InitViz ==
    /\ self_data \in Tables
    /\ pc = "viz"
    /\ data = <<>>
    /\ NoCall
    /\ NoPlot
    /\ data_is_none = FALSE
    /\ NoStorage

NextViz ==
    \E cat \in Categories, xr \in Ranges :
        CreateMetricComparison(cat, xr) \/ CreateCategoryGroupPlots(cat, xr)

SpecViz == InitViz /\ [][NextViz]_vars

\* a BalthazarVisualizer is constructed on a table of metrics of either
\* polarity
InitPolarity ==
    /\ self_data \in PolarityTables
    /\ pc = "viz"
    /\ data = <<>>
    /\ NoCall
    /\ NoPlot
    /\ data_is_none = FALSE
    /\ NoStorage

NextPolarity ==
    \E cat \in PolarityNames, xr \in PolarityRanges :
        CreateMetricComparison(cat, xr) \/ CreateCategoryGroupPlots(cat, xr)

SpecPolarity == InitPolarity /\ [][NextPolarity]_vars

\* a BalthazarVisualizer is constructed on a table of metrics of the groups
InitGroups ==
    /\ self_data \in GroupTables
    /\ pc = "viz"
    /\ data = <<>>
    /\ NoCall
    /\ NoPlot
    /\ data_is_none = FALSE
    /\ NoStorage

NextGroups == \E xr \in PolarityRanges : CreateSummaryDashboard(xr)

SpecGroups == InitGroups /\ [][NextGroups]_vars

\* the date ranges handed to save_to_browser: two texts that name days (as
\* in test_dashboard.py and app.py), two dates (main.py), two datetimes at
\* midnight or later in the day, texts that name no day, week numbers, and
\* mixed ends
DateEnds ==
    {DateText(1), DateText(0), DateOnly(1), DateTime(1, 0), DateTime(1, 5), IntValue(1)}

DateRanges == {<<a, b>> : a \in DateEnds, b \in {DateText(2), DateOnly(2), DateTime(2, 7)}}
                 \cup {<<a, a>> : a \in DateEnds} \cup {<<DateText(1), DateText(0)>>}

\* the tables a visualizer holds when it saves
StoredTables ==
    {<<Obs(15, Sales, "Mål", 100), Obs(15, Sales, "Utfall", 10)>>,
     <<Obs(16, Other, "Utfall", 20)>>}

Configs == {<<"sheet_name">>, <<"sheet_name", "credentials_json">>}

\* a BalthazarVisualizer, with a table or without, over a storage without
\* files
InitStorage ==
    /\ data_is_none \in BOOLEAN
    /\ self_data \in (IF data_is_none THEN {<<>>} ELSE StoredTables)
    /\ pc = "storage"
    /\ data = <<>>
    /\ NoCall
    /\ NoPlot
    /\ NoStorage

NextStorage ==
    \/ \E date_range \in DateRanges, io \in WriteOutcomes : SaveToBrowser(date_range, io)
    \/ LoadFromBrowser
    \/ \E io \in RemoveOutcomes : ClearSavedData(io)
    \/ \E config \in Configs, io \in WriteOutcomes : SaveConfiguration(config, io)
    \/ \E io \in RemoveOutcomes : ClearConfiguration(io)

SpecStorage == InitStorage /\ [][NextStorage]_vars

Init == InitParse \/ InitViz \/ InitPolarity \/ InitGroups \/ InitStorage

Next == NextReparse \/ NextViz \/ NextPolarity \/ NextGroups \/ NextStorage

Spec == Init /\ [][Next]_vars

(***************************************************************************)
(* Properties                                                              *)
(***************************************************************************)
F(n) == IntToFloat(n)

\* the category's observations of one kind at one week, in the table
ObsAt(t, cat, row_type, w) ==
    SelectSeq(t, LAMBDA r : r.Category = cat /\ r.Type = row_type /\ r.Date = w)

\* the number of the category's observations of one kind over a set of weeks
RECURSIVE CountIn(_, _, _, _)
CountIn(t, cat, row_type, W) ==
    IF W = {} THEN 0
    ELSE LET w == CHOOSE x \in W : TRUE
         IN Len(ObsAt(t, cat, row_type, w)) + CountIn(t, cat, row_type, W \ {w})

\* one entry per week without an observation, one per observation otherwise
RECURSIVE JoinLen(_, _, _, _)
JoinLen(t, cat, row_type, W) ==
    IF W = {} THEN 0
    ELSE LET w == CHOOSE x \in W : TRUE
             n == Len(ObsAt(t, cat, row_type, w))
         IN (IF n = 0 THEN 1 ELSE n) + JoinLen(t, cat, row_type, W \ {w})

Axis == {weeks[k] : k \in 1..Len(weeks)}

Plotted == pc = "plotted" /\ fig = "plot"

RangeGiven == Len(x_range) = 2 /\ x_range[1] <= x_range[2]

FourObservations ==
    <<Obs(15, Sales, "Mål", 100), Obs(17, Sales, "Mål", 100),
      Obs(15, Sales, "Utfall", 10), Obs(16, Sales, "Utfall", 20)>>

\* C1 as stated: the grid with header row ["", 15, 16, 17] yields the four
\* observations (15,Sales,Mål,100), (17,Sales,Mål,100), (15,Sales,Utfall,10),
\* (16,Sales,Utfall,20), in that order.
C1_AsStated == (pc = "done" /\ data = ScenarioGrid) => result = FourObservations

\* C1, amended: the four observations, in that order and no others, are what
\* process_data returns for the rows of the scenario under the header row
\* ["", "", 15, 16, 17], whose week cells stand in the columns of the values;
\* under the header row ["", 15, 16, 17] every week is read one column to the
\* left and the result is (16,Sales,Mål,100), (16,Sales,Utfall,10),
\* (17,Sales,Utfall,20).
C1_EndToEnd ==
    pc = "done" =>
        /\ data = ScenarioGridAligned => result = FourObservations
        /\ data = ScenarioGrid =>
               result = <<Obs(16, Sales, "Mål", 100), Obs(16, Sales, "Utfall", 10),
                          Obs(17, Sales, "Utfall", 20)>>

C1_Witness == pc = "done" /\ data = ScenarioGridAligned /\ Len(result) = 4

\* C2 as stated: for every category and every range (a,b) with a <= b the
\* goal sequence and the outcome sequence each have b-a+1 entries.
C2_AsStated ==
    (pc = "plotted" /\ method = "metric" /\ RangeGiven) =>
        /\ Len(goal_y) = x_range[2] - x_range[1] + 1
        /\ Len(outcome_y) = x_range[2] - x_range[1] + 1

\* C2, amended: for a range (a,b) with a <= b, a kind's sequence is empty when
\* the category has no observation of that kind inside the range (the outcome
\* sequence then takes the goal sequence's weeks, all zero, when there is
\* one), and has otherwise one entry per week of the range without an
\* observation of the kind plus one entry per observation; so with a Goal
\* observation in the range and at most one observation per week and kind,
\* both have exactly b-a+1 entries.
C2_SeriesLength ==
    (Plotted /\ method = "metric" /\ RangeGiven) =>
        LET W == x_range[1]..x_range[2]
            goals == CountIn(self_data, category, "Mål", W)
            outcomes == CountIn(self_data, category, "Utfall", W)
            unique == \A w \in W, t \in {"Mål", "Utfall"} : Len(ObsAt(self_data, category, t, w)) <= 1
        IN /\ Len(goal_x) = Len(goal_y)
           /\ Len(outcome_x) = Len(outcome_y)
           /\ Len(goal_y) = IF goals = 0 THEN 0 ELSE JoinLen(self_data, category, "Mål", W)
           /\ Len(outcome_y) = IF outcomes > 0 THEN JoinLen(self_data, category, "Utfall", W)
                               ELSE Len(goal_y)
           /\ (goals > 0 /\ unique) =>
                  /\ Len(goal_y) = x_range[2] - x_range[1] + 1
                  /\ Len(outcome_y) = x_range[2] - x_range[1] + 1

C2_Witness ==
    /\ Plotted
    /\ method = "metric"
    /\ x_range = <<1, 3>>
    /\ CountIn(self_data, category, "Mål", 1..3) = 1
    /\ CountIn(self_data, category, "Utfall", 1..3) = 0
    /\ Len(goal_y) = 3
    /\ Len(outcome_y) = 3

\* the weeks of the goal line that carry no Goal observation of the category
GoalGaps == {k \in 1..Len(goal_x) : ObsAt(self_data, category, "Mål", goal_x[k]) = <<>>}

\* the weeks of the axis that carry a Goal observation of the category
GoalWeeks == {w \in Axis : ObsAt(self_data, category, "Mål", w) # <<>>}

\* C3 as stated: a week of the range without a Goal observation takes the
\* value of the latest earlier Goal observation when it lies between the first
\* and the last Goal observation, and has no entry otherwise.
C3_AsStated ==
    (Plotted /\ RangeGiven) =>
        /\ \A k \in GoalGaps :
              /\ \E w \in GoalWeeks : w < goal_x[k]
              /\ \E w \in GoalWeeks : w > goal_x[k]
              /\ LET last == CHOOSE w \in GoalWeeks :
                                 w < goal_x[k] /\ \A v \in GoalWeeks : v < goal_x[k] => v <= w
                 IN goal_y[k] \in {r.Value : r \in {ObsAt(self_data, category, "Mål", last)[i] :
                                       i \in 1..Len(ObsAt(self_data, category, "Mål", last))}}
        /\ (category = Sales /\ x_range = <<15, 17>> /\ self_data = prepare_data(FourObservations))
               => goal_y = <<F(100), F(100), F(100)>>

\* C3, amended: when the category has a Goal observation inside the range,
\* every week of the range without a Goal observation has an entry in the goal
\* sequence and its value is 0, wherever the week lies (before the first,
\* between, or after the last Goal observation); Goal observations at weeks
\* {2,4} over [1,5] give [0, g2, 0, g4, 0] and Goal at weeks {15,17} over
\* [15,17] gives [100, 0, 100].
C3_GoalZeroFill ==
    (Plotted /\ RangeGiven) =>
        /\ \A k \in GoalGaps : goal_y[k] = Zero
        /\ GoalWeeks # {} =>
               \A w \in Axis : ObsAt(self_data, category, "Mål", w) = <<>> =>
                   \E k \in 1..Len(goal_x) : goal_x[k] = w
        /\ \A k \in (1..Len(goal_x)) \ GoalGaps :
               \E i \in 1..Len(self_data) :
                   /\ self_data[i].Date = goal_x[k]
                   /\ self_data[i].Category = category
                   /\ self_data[i].Type = "Mål"
                   /\ self_data[i].Value = goal_y[k]
        /\ (category = Sales /\ x_range = <<1, 5>>
              /\ self_data = <<Obs(2, Sales, "Mål", 10), Obs(4, Sales, "Mål", 20)>>)
               => goal_y = <<Zero, F(10), Zero, F(20), Zero>>
        /\ (category = Sales /\ x_range = <<15, 17>> /\ self_data = prepare_data(FourObservations))
               => goal_y = <<F(100), Zero, F(100)>>

C3_Witness ==
    /\ Plotted
    /\ category = Sales
    /\ x_range = <<1, 5>>
    /\ self_data = <<Obs(2, Sales, "Mål", 10), Obs(4, Sales, "Mål", 20)>>
    /\ goal_x = <<1, 2, 3, 4, 5>>
    /\ goal_y = <<Zero, F(10), Zero, F(20), Zero>>

\* C4: when the category has a Goal observation in the week axis, every week
\* of the axis without an Outcome observation has an entry in the outcome
\* sequence, with value 0; Goal at weeks {1,2,3} without Outcome over [1,3]
\* gives Outcome [0,0,0], and Outcome at weeks 15 and 16 over [15,17] gives
\* [10,20,0].
C4_OutcomeGapFill ==
    Plotted =>
        /\ (\E w \in Axis : ObsAt(self_data, category, "Mål", w) # <<>>) =>
               \A w \in Axis : ObsAt(self_data, category, "Utfall", w) = <<>> =>
                   /\ \E k \in 1..Len(outcome_x) : outcome_x[k] = w
                   /\ \A k \in 1..Len(outcome_x) : outcome_x[k] = w => outcome_y[k] = Zero
        /\ (category = Sales /\ x_range = <<1, 3>>
              /\ self_data = <<Obs(1, Sales, "Mål", 10), Obs(2, Sales, "Mål", 20),
                               Obs(3, Sales, "Mål", 10)>>)
               => outcome_y = <<Zero, Zero, Zero>>
        /\ (category = Sales /\ x_range = <<15, 17>> /\ self_data = prepare_data(FourObservations))
               => outcome_y = <<F(10), F(20), Zero>>

C4_Witness ==
    /\ Plotted
    /\ category = Sales
    /\ x_range = <<1, 3>>
    /\ self_data = <<Obs(1, Sales, "Mål", 10), Obs(2, Sales, "Mål", 20), Obs(3, Sales, "Mål", 10)>>
    /\ outcome_x = <<1, 2, 3>>
    /\ outcome_y = <<Zero, Zero, Zero>>

\* a step of the row loop that raises nothing
RowStepTaken == pc = "rows" /\ row_idx < Len(data) /\ pc' = "rows" /\ row_idx' = row_idx + 1

\* the row the step processes, and the records it appends
StepRow == At(data, row_idx)

Appended == SubSeq(records', Len(records) + 1, Len(records'))

\* the row's label starts with the marker
IsMarkedRow(row, marker) ==
    Len(row) >= 2 /\ row[2].t = "str" /\ StartsWith(Strip(row[2].s), marker)

IsMarkedStep(marker) == RowStepTaken /\ row_idx > week_row_idx /\ IsMarkedRow(StepRow, marker)

\* the text of a cell with ',' replaced by '.' and the spaces deleted
LocaleText(cell) == Replace(Replace(cell.s, <<",">>, <<".">>), <<" ">>, <<>>)

\* the cell holds a number other than zero
HoldsNonZero(cell) ==
    \/ cell.t = "int" /\ cell.n # 0
    \/ cell.t = "str" /\ ParseFloat(LocaleText(cell)).ok /\ ParseFloat(LocaleText(cell)).v # Zero

\* the cell holds a number and is not the literal 0
HoldsNonLiteralZero(cell) ==
    \/ cell.t = "int" /\ cell.n # 0
    \/ cell.t = "str" /\ ParseFloat(LocaleText(cell)).ok /\ LocaleText(cell) # <<"0">>

\* the weeks of the header mapping whose column lies in the row and passes
\* the test, in the mapping's order
WeeksWhere(row, Test(_)) ==
    LET ks == SelectSeq([k \in 1..Len(week_cols) |-> k],
                        LAMBDA k : week_cols[k] < Len(row) /\ Test(At(row, week_cols[k])))
    IN [i \in 1..Len(ks) |-> week_numbers[ks[i]]]

DatesOf(recs) == [k \in 1..Len(recs) |-> recs[k].Date]

\* C5 as stated: under a detected header a 'Mål:' row emits an Observation
\* for week pi exactly when its cell at column ci holds a numeric non-zero
\* value.
C5_AsStated ==
    [][(IsMarkedStep(GoalMarker) /\ week_row_idx # -1)
          => DatesOf(Appended) = WeeksWhere(StepRow, HoldsNonZero)]_vars

\* C5, amended: under a detected header mapping columns c1..cn to weeks
\* p1..pn, a 'Mål:' row emits an Observation for week pi exactly when its cell
\* at column ci holds a number and is not the literal 0 (the number 0, or a
\* text that is "0" once ',' is replaced by '.' and the spaces are deleted); a
\* text such as "0,0" that is numerically zero does emit an Observation, of
\* value 0.  It emits none for a column outside the mapping, for a column
\* beyond the end of a short row, or for an empty cell.
C5_Subset ==
    [][(IsMarkedStep(GoalMarker) /\ week_row_idx # -1)
          => DatesOf(Appended) = WeeksWhere(StepRow, HoldsNonLiteralZero)]_vars

C5_Witness ==
    /\ pc = "rows"
    /\ week_row_idx = 0
    /\ row_idx = 2
    /\ At(data, 1) = <<EmptyCell, StrCell(GoalSales), IntCell(100), EmptyCell>>
    /\ records = <<Obs(15, Sales, "Mål", 100)>>

\* the header search is over
HeaderSearched == pc \in {"rows", "done", "raised"} /\ data # <<>>

WeekCellCols(row) == {j \in 0..(Len(row) - 1) : IsWeekCell(At(row, j))}

\* the rows among the first 10 that pass the test
Candidates(Test(_)) == {i \in 0..(Min(10, Len(data)) - 1) : Test(At(data, i))}

FirstCandidate(Test(_)) ==
    IF Candidates(Test) = {} THEN -1
    ELSE CHOOSE i \in Candidates(Test) : \A j \in Candidates(Test) : i <= j

\* the header mapping consists of the row's week cells, in column order
MappingIs(row) ==
    /\ Len(week_cols) = Cardinality(WeekCellCols(row))
    /\ Len(week_numbers) = Len(week_cols)
    /\ {week_cols[k] : k \in 1..Len(week_cols)} = WeekCellCols(row)
    /\ \A k \in 1..(Len(week_cols) - 1) : week_cols[k] < week_cols[k + 1]
    /\ \A k \in 1..Len(week_cols) : week_numbers[k] = WeekNum(At(row, week_cols[k])).v

TwoWeekCells(row) == Cardinality(WeekCellCols(row)) >= 2

WideWithTwoWeekCells(row) == Len(row) > 2 /\ Cardinality(WeekCellCols(row)) >= 2

\* C6 as stated: the header is the first of the first 10 rows with at least
\* 2 cells parsing as integers in [1,53], and the mapping is those cells.
C6_AsStated ==
    HeaderSearched =>
        /\ week_row_idx = FirstCandidate(TwoWeekCells)
        /\ week_row_idx # -1 => MappingIs(At(data, week_row_idx))

\* C6, amended: the header is the first row, in top-to-bottom order among the
\* first 10 rows of the grid, that has more than 2 cells and contains at least
\* 2 cells (texts or integers) parsing as integers in [1,53]; no row at index
\* 10 or later is chosen, and the mapping consists of exactly those cells, in
\* column order (not sorted by week), each column mapped to its own cell's
\* integer.
C6_HeaderLocation ==
    HeaderSearched =>
        /\ week_row_idx = FirstCandidate(WideWithTwoWeekCells)
        /\ week_row_idx < 10
        /\ week_row_idx # -1 => MappingIs(At(data, week_row_idx))

C6_Witness ==
    /\ pc = "rows"
    /\ week_row_idx = 9
    /\ At(data, 8) = <<IntCell(15), IntCell(16)>>
    /\ week_cols = <<2, 3>>
    /\ week_numbers = <<17, 15>>

NoRowQualifies == Candidates(TwoWeekCells) = {}

\* C7 as stated: when no row among the first 10 qualifies as a header, the
\* result holds, under the default mapping (column 2 is week 1, column 3 is
\* week 2, ...), an Observation for every numeric non-zero value cell of every
\* Goal and Outcome row of the grid.
C7_AsStated ==
    (pc = "done" /\ data # <<>> /\ NoRowQualifies) =>
        \A i \in 1..Len(data) : \A c \in 2..(Len(data[i]) - 1) :
            \A t \in {"Mål", "Utfall"} :
                (/\ IsMarkedRow(data[i], IF t = "Mål" THEN GoalMarker ELSE OutcomeMarker)
                 /\ t = "Utfall" => ~IsMarkedRow(data[i], GoalMarker)
                 /\ HoldsNonZero(At(data[i], c)))
                    => \E k \in 1..Len(result) : result[k].Date = c - 1 /\ result[k].Type = t

\* C8 as stated: no exception escapes process_data, whatever the cells of the
\* grid are.
C8_AsStated == pc # "raised"

\* the label with its one leading marker removed, and the remainder trimmed
CategoryAsStated(label, marker) ==
    Strip(SubSeq(Strip(label), Len(marker) + 1, Len(Strip(label))))

\* C9 as stated: a row whose trimmed label starts with 'Mål:' emits Goal
\* records, one that starts with 'Utfall:' (and not with 'Mål:') Outcome
\* records, and the category is the label with that one leading marker
\* removed and the remainder trimmed.
C9_AsStated ==
    [][/\ IsMarkedStep(GoalMarker) =>
              \A k \in 1..Len(Appended) :
                  /\ Appended[k].Type = "Mål"
                  /\ Appended[k].Category = CategoryAsStated(StepRow[2].s, GoalMarker)
       /\ (IsMarkedStep(OutcomeMarker) /\ ~IsMarkedStep(GoalMarker)) =>
              \A k \in 1..Len(Appended) :
                  /\ Appended[k].Type = "Utfall"
                  /\ Appended[k].Category = CategoryAsStated(StepRow[2].s, OutcomeMarker)]_vars

\* the trimmed label of the grid's row i, empty when the row has none
LabelAt(i) ==
    IF i >= 0 /\ i < Len(data) /\ Len(At(data, i)) >= 2 /\ At(At(data, i), 1).t = "str"
    THEN Strip(At(At(data, i), 1).s)
    ELSE <<>>

\* C10 as stated: of two consecutive rows with the same known-metric label
\* and no marker, the first (its next row has the same label) emits Goal
\* records and the second (its previous row has the same label) Outcome
\* records.
C10_AsStated ==
    [][(RowStepTaken /\ row_idx > week_row_idx /\ LabelAt(row_idx) \in known_metrics) =>
          /\ LabelAt(row_idx + 1) = LabelAt(row_idx) =>
                 \A k \in 1..Len(Appended) : Appended[k].Type = "Mål"
          /\ (LabelAt(row_idx - 1) = LabelAt(row_idx) /\ LabelAt(row_idx + 1) # LabelAt(row_idx)) =>
                 \A k \in 1..Len(Appended) : Appended[k].Type = "Utfall"]_vars

\* the row the step processes carries no marker and its trimmed label is a
\* known-metric name
IsKnownNameStep == RowStepTaken /\ row_idx > week_row_idx /\ LabelAt(row_idx) \in known_metrics

\* C11 as stated: a known-metric row without a marker whose previous row and
\* next row both carry another label (or do not exist) emits Goal records,
\* whatever the rows further away contain.
C11_AsStated ==
    [][(/\ IsKnownNameStep
        /\ LabelAt(row_idx - 1) # LabelAt(row_idx)
        /\ LabelAt(row_idx + 1) # LabelAt(row_idx))
          => \A k \in 1..Len(Appended) : Appended[k].Type = "Mål"]_vars

\* the step processes a row whose label is a text that starts with neither
\* marker
IsUnmarkedStep ==
    /\ RowStepTaken
    /\ row_idx > week_row_idx
    /\ Len(StepRow) >= 2
    /\ StepRow[2].t = "str"
    /\ ~StartsWith(Strip(StepRow[2].s), GoalMarker)
    /\ ~StartsWith(Strip(StepRow[2].s), OutcomeMarker)

\* one of the known-metric names occurs in the label
HoldsKnownName(label) == \E metric \in known_metrics : Contains(label, metric)

\* C12 as stated: a row without a marker emits its Observations exactly when
\* its trimmed label is equal to one of the known-metric names; every other
\* label without a marker emits none.
C12_AsStated ==
    [][IsUnmarkedStep =>
          DatesOf(Appended) = IF LabelAt(row_idx) \in known_metrics
                              THEN WeeksWhere(StepRow, HoldsNonLiteralZero)
                              ELSE <<>>]_vars

\* C12, amended: a row without a marker emits Observations exactly when one of
\* the known-metric names occurs in its trimmed label (as the whole label or
\* as a part of it, as in "My Git commits") and a mapped cell holds a number
\* that is not the literal 0; it then emits one per such cell, with the whole
\* trimmed label as category.  A label in which no known name occurs emits
\* none.
C12_KnownName ==
    [][IsUnmarkedStep =>
          /\ DatesOf(Appended) = IF HoldsKnownName(LabelAt(row_idx))
                                 THEN WeeksWhere(StepRow, HoldsNonLiteralZero)
                                 ELSE <<>>
          /\ \A k \in 1..Len(Appended) : Appended[k].Category = LabelAt(row_idx)]_vars

C12_Witness ==
    /\ pc = "rows"
    /\ row_idx = 2
    /\ LabelAt(1) = MyGitCommits
    /\ records = <<Obs(15, MyGitCommits, "Mål", 10), Obs(16, MyGitCommits, "Mål", 20)>>

\* the step processes a Goal row or an Outcome row
IsValueRowStep == IsMarkedStep(GoalMarker) \/ IsMarkedStep(OutcomeMarker)

\* the cell is the number 0, or a text that is "0" once ',' is replaced by '.'
\* and the spaces are deleted
IsLiteralZero(cell) ==
    \/ cell.t = "int" /\ cell.n = 0
    \/ cell.t = "str" /\ LocaleText(cell) = <<"0">>

\* the cell holds a number
HoldsNumber(cell) == cell.t = "int" \/ (cell.t = "str" /\ ParseFloat(LocaleText(cell)).ok)

\* the row with its literal zeros blanked
Blanked(row) == [j \in 1..Len(row) |-> IF IsLiteralZero(row[j]) THEN EmptyCell ELSE row[j]]

\* the mapped columns of the row that hold a literal zero
ZeroColumns(row) ==
    {k \in 1..Len(week_cols) : week_cols[k] < Len(row) /\ IsLiteralZero(At(row, week_cols[k]))}

\* C13: in a Goal or Outcome row, a cell that is the literal "0" or the number
\* 0 emits no Observation, and the other cells of the row are processed as if
\* the zero cells were empty: the row emits one Observation per mapped cell
\* that holds a number and is no literal zero, neither more nor fewer.
C13_ZeroSkip ==
    [][IsValueRowStep =>
          /\ DatesOf(Appended) = WeeksWhere(Blanked(StepRow), HoldsNumber)
          /\ Len(Appended) <= Len(week_cols) - Cardinality(ZeroColumns(StepRow))]_vars

C13_Witness ==
    /\ pc = "rows"
    /\ row_idx = 2
    /\ At(data, 0) = AlignedHeader
    /\ At(data, 1) = <<EmptyCell, StrCell(GoalSales), StrCell(TextZero), IntCell(100)>>
    /\ records = <<Obs(16, Sales, "Mål", 100)>>

\* the number a cell stands for: the cell itself, or its text parsed after
\* ',' is replaced by '.' and the spaces are deleted
NumberOf(cell) == IF cell.t = "int" THEN IntToFloat(cell.n) ELSE ParseFloat(LocaleText(cell)).v

\* the numbers of the mapped cells of the row that pass the test, in the
\* mapping's order
NumbersWhere(row, Test(_)) ==
    LET ks == SelectSeq([k \in 1..Len(week_cols) |-> k],
                        LAMBDA k : week_cols[k] < Len(row) /\ Test(At(row, week_cols[k])))
    IN [i \in 1..Len(ks) |-> NumberOf(At(row, week_cols[ks[i]]))]

ValuesOf(recs) == [k \in 1..Len(recs) |-> recs[k].Value]

\* 1234.5
Decimal1234p5 == Normalise(12345, 1)

\* C14: the value a Goal or Outcome row emits for a cell is the number its
\* text parses to once ',' is replaced by '.' and the spaces are deleted, so a
\* decimal comma with space grouping gives the same value as the plain dot
\* form: "1 234,5" and "1234.5" both emit 1234.5.
C14_LocaleNormalisation ==
    [][IsValueRowStep =>
          /\ ValuesOf(Appended) = NumbersWhere(StepRow, HoldsNonLiteralZero)
          /\ \A k \in 1..Len(week_cols) :
                (/\ week_cols[k] < Len(StepRow)
                 /\ At(StepRow, week_cols[k]) \in {StrCell(TextLocale), StrCell(TextPlain)})
                    => \E i \in 1..Len(Appended) :
                           /\ Appended[i].Date = week_numbers[k]
                           /\ Appended[i].Value = Decimal1234p5]_vars

C14_Witness ==
    /\ pc = "rows"
    /\ row_idx = 2
    /\ At(data, 1) = <<EmptyCell, StrCell(GoalSales), StrCell(TextLocale), StrCell(TextPlain)>>
    /\ Len(records) = 2
    /\ records[1].Value = Decimal1234p5
    /\ records[2].Value = Decimal1234p5
    /\ records[1].Date = 15
    /\ records[2].Date = 16

\* the call is over
CallOver == pc \in {"done", "raised"}

\* what the call that is over gave: whether it raised, and the table returned
Outcome == [raised |-> pc = "raised", result |-> IF pc = "raised" THEN <<>> ELSE result]

OutcomeOf(call) == [raised |-> call.raised, result |-> call.result]

\* C15: two calls of process_data on the same grid give the same outcome, the
\* same records in the same order (or the same exception), whatever grids were
\* parsed in between, and no step of a call changes the grid.  process_data
\* reads and writes no attribute of the connector, so the connector the call
\* is made on is no part of the state.
C15_Determinism ==
    /\ [](\A i, j \in 1..Len(returned) :
              returned[i].grid = returned[j].grid => OutcomeOf(returned[i]) = OutcomeOf(returned[j]))
    /\ [](CallOver =>
              \A i \in 1..Len(returned) :
                  returned[i].grid = data => OutcomeOf(returned[i]) = Outcome)
    /\ [][(pc \in {"call", "rows"}) => (data' = data)]_vars

\* the scenario grid is parsed, then the grid of the pair, then the scenario
\* grid again, with the same four observations
C15_Witness ==
    /\ pc = "done"
    /\ Len(returned) = 2
    /\ returned[1].grid = ScenarioGridAligned
    /\ returned[2].grid = PairGrid
    /\ returned[2].result # <<>>
    /\ data = ScenarioGridAligned
    /\ result = FourObservations
    /\ returned[1].result = FourObservations

\* the range given has its start after its end
RangeReversed == Len(x_range) = 2 /\ x_range[1] > x_range[2]

\* C16 as stated: a call of create_metric_comparison or of
\* create_category_group_plots with a week range whose start is after its end
\* raises an error and returns no figure.
C16_AsStated == ~(pc = "plotted" /\ RangeReversed /\ fig \in {"nodata", "plot"})

\* no row of the grid is a Goal row, an Outcome row or a known-metric row
NoUsableRow ==
    \A i \in 0..(Len(data) - 1) :
        /\ ~StartsWith(LabelAt(i), GoalMarker)
        /\ ~StartsWith(LabelAt(i), OutcomeMarker)
        /\ ~HoldsKnownName(LabelAt(i))

\* C17 as stated: on a grid without rows, or without a usable row,
\* process_data returns an empty table and raises nothing.
C17_AsStated == (CallOver /\ NoUsableRow) => (pc = "done" /\ result = <<>>)

\* C18 as stated: every Observation process_data returns has a week in
\* 1..53, under a detected header and under the default mapping, for grids of
\* any width.
C18_AsStated ==
    pc = "done" =>
        \A k \in 1..Len(result) : result[k].Date \in MinWeekNumber..MaxWeekNumber

\* C19 as stated: every Observation process_data returns has a category that
\* is not empty and carries no surrounding whitespace, whatever the label of
\* its row is, a label that is the marker alone included.
C19_AsStated ==
    pc = "done" =>
        \A k \in 1..Len(result) :
            /\ result[k].Category # <<>>
            /\ Strip(result[k].Category) = result[k].Category

\* one of the four tokens occurs in the lower-cased name
HasLowerIsBetterToken(name) ==
    \E token \in {<<"l", "ä", "g", "r", "e">>, <<"m", "i", "n", "d", "r", "e">>,
                  <<"l", "o", "w", "e", "r">>, <<"u", "t", "g", "i", "f", "t", "e", "r">>} :
        Contains(Lower(name), token)

\* C20: the polarity of a plot is a function of the category name alone: the
\* y axis is inverted exactly when 'lägre', 'mindre', 'lower' or 'utgifter'
\* occurs in the lower-cased name, whatever the table, the range and the
\* method (single-metric plot or group plot) are; "Utgifter SEK", "LÄGRE",
\* "Flower" and "mindre" are LowerIsBetter, "Low", "Sales" and "Resultat SEK"
\* are Normal.
C20_Polarity ==
    Plotted =>
        /\ inverted = HasLowerIsBetterToken(category)
        /\ inverted = (category \in {UtgifterSEK, LagreUpper, Flower, Mindre})

C20_Witness ==
    /\ Plotted
    /\ method = "group"
    /\ category = UtgifterSEK
    /\ inverted

\* the stored value of the category's observation of the kind at the week,
\* zero when it has none
StoredValue(cat, row_type, w) ==
    IF ObsAt(self_data, cat, row_type, w) = <<>> THEN Zero
    ELSE ObsAt(self_data, cat, row_type, w)[1].Value

\* the table in which every name has one Goal observation, 10 at week 1
UniformGoalTable ==
    \A i \in 1..Len(self_data) :
        self_data[i].Date = 1 /\ self_data[i].Type = "Mål" /\ self_data[i].Value = F(10)

\* C21: polarity changes no value: every entry of the goal and of the outcome
\* sequence is the stored value of the week's observation (zero where there
\* is none), neither negated nor rescaled, whether the axis is inverted or
\* not; two categories with the same observations and range and different
\* polarity get the same sequences, [10, 0] and [0, 0] for a Goal of 10 at
\* week 1 over [1,2]; and a plot leaves the rows of the stored table as they
\* are (it only sorts them).
C21_PolarityKeepsValues ==
    /\ [](Plotted =>
            /\ \A k \in 1..Len(goal_y) : goal_y[k] = StoredValue(category, "Mål", goal_x[k])
            /\ \A k \in 1..Len(outcome_y) :
                   outcome_y[k] = StoredValue(category, "Utfall", outcome_x[k])
            /\ (UniformGoalTable /\ x_range = <<1, 2>>) =>
                   (goal_y = <<F(10), Zero>> /\ outcome_y = <<Zero, Zero>>))
    /\ [][/\ Len(self_data') = Len(self_data)
          /\ \A i \in 1..Len(self_data) : \E j \in 1..Len(self_data) : self_data'[j] = self_data[i]]_vars

C21_Witness ==
    /\ Plotted
    /\ inverted
    /\ category = UtgifterSEK
    /\ UniformGoalTable
    /\ x_range = <<1, 2>>
    /\ goal_y = <<F(10), Zero>>

\* the categories of the stored table
Present == {self_data[i].Category : i \in 1..Len(self_data)}

\* the groups a category is in
GroupsOf(cat) == {g \in GroupNames : cat \in figures[g]}

\* the name is on no allow list and starts with no prefix of a group
MatchesNoGroup(cat) ==
    /\ cat \notin {ResultatSEK, GitCommits, SkickadeEpost, KortaYTVideos}
    /\ ~StartsWith(cat, <<"Y", "T">>)
    /\ ~StartsWith(cat, SubSeq(BalthazarWeb, 1, 9))
    /\ ~StartsWith(cat, SubSeq(EpostSent, 1, 6))
    /\ ~StartsWith(cat, AntalKunder)

\* C22: create_summary_dashboard puts every category of the data in exactly
\* one group, a category that matches no allow list and no prefix in 'Other
\* Statistics' (and only such categories there), and no group holds a
\* category that is absent from the data.
C22_GroupingCoverage ==
    pc = "dashboard" =>
        /\ \A cat \in Present : Cardinality(GroupsOf(cat)) = 1
        /\ \A g \in GroupNames : figures[g] \subseteq Present
        /\ \A cat \in Present : MatchesNoGroup(cat) <=> cat \in figures["Other Statistics"]

C22_Witness ==
    /\ pc = "dashboard"
    /\ Present = {GitCommits, SkickadeEpost, KortaYTVideos, YTViews, EpostSent, Sales, UtgifterSEK}
    /\ figures["Productivity Metrics"] = {GitCommits, SkickadeEpost}
    /\ figures["Content Metrics"] = {KortaYTVideos}
    /\ figures["YouTube Statistics"] = {YTViews}
    /\ figures["Email Statistics"] = {EpostSent}
    /\ figures["Other Statistics"] = {Sales, UtgifterSEK}
    /\ figures["Financial Metrics"] = {}

\* the prefixes that name a section of grouped statistics
SectionPrefixes ==
    {<<"Y", "T">>, <<"B", "a", "l", "t", "h", "a", "z", "a", "r">>,
     <<"E", "-", "p", "o", "s", "t">>,
     <<"A", "n", "t", "a", "l", " ", "k", "u", "n", "d", "e", "r">>}

IsSectionLabel(label) == \E p \in SectionPrefixes : StartsWith(label, p)

\* the label up to its first space
LeadingToken(label) ==
    IF \E i \in 1..Len(label) : label[i] = " "
    THEN SubSeq(label, 1, (CHOOSE i \in 1..Len(label) :
                               label[i] = " " /\ \A j \in 1..(i - 1) : label[j] # " ") - 1)
    ELSE label

\* the rows before row i, after the header, that are section headers
SectionRowsBefore(i) == {j \in (week_row_idx + 1)..(i - 1) : IsSectionLabel(LabelAt(j))}

\* the section in force at row i, empty when there is none
CurrentSection(i) ==
    IF SectionRowsBefore(i) = {} THEN <<>>
    ELSE LeadingToken(LabelAt(CHOOSE j \in SectionRowsBefore(i) :
                                  \A k \in SectionRowsBefore(i) : k <= j))

\* C23 as stated: after a row whose label matches a section-name prefix, the
\* Observations of every later row without a marker carry the category
\* "{current_section} {label}", until another section header is met.
C23_AsStated ==
    [][(IsUnmarkedStep /\ CurrentSection(row_idx) # <<>> /\ ~IsSectionLabel(LabelAt(row_idx)))
          => \A k \in 1..Len(Appended) :
                 Appended[k].Category = CurrentSection(row_idx) \o <<" ">> \o LabelAt(row_idx)]_vars

(***************************************************************************)
(* C24, C25: the storage                                                   *)
(***************************************************************************)
JustLoaded == pc = "storage" /\ last_op.name = "load_from_browser"

SavedAndKept == saved_range # <<>>

\* C24 as stated: after a save that succeeded, and until the next save or
\* clear, load_from_browser returns the rows that were saved together with
\* the same date_range value that was saved.
C24_AsStated ==
    (JustLoaded /\ SavedAndKept) =>
        (~loaded.none /\ loaded.data = self_data /\ loaded.date_range = saved_range)

NamesDay(x) == HasStrftime(x) \/ (x.k = "str" /\ x.day > 0)

Midnight(x) == [k |-> "datetime", day |-> x.day, secs |-> 0]

BothDates(date_range) == HasStrftime(date_range[1]) /\ HasStrftime(date_range[2])

BothDayTexts(date_range) ==
    \A i \in 1..2 : date_range[i].k = "str" /\ date_range[i].day > 0

AsLoaded(date_range) ==
    IF BothDates(date_range) \/ BothDayTexts(date_range)
    THEN <<Midnight(date_range[1]), Midnight(date_range[2])>>
    ELSE date_range

\* C24, amended: after a save that succeeded, and until the next save or
\* clear, load_from_browser returns the rows that were saved; the date_range
\* comes back with each end as the datetime at midnight of its day when both
\* ends were dates or datetimes or both were "%Y-%m-%d" texts, and as the
\* value that was saved otherwise.
C24_RoundTrip ==
    (JustLoaded /\ SavedAndKept) =>
        (~loaded.none /\ loaded.data = self_data
            /\ loaded.date_range = AsLoaded(saved_range))

C24_Witness ==
    /\ JustLoaded
    /\ SavedAndKept
    /\ BothDayTexts(saved_range)
    /\ loaded.date_range # saved_range
    /\ loaded.data = self_data

Wrappers == {"save_to_browser", "save_config", "clear_browser_data", "clear_config"}

\* C25 as stated: save_to_browser, save_config, clear_browser_data and
\* clear_config return a truthy value exactly when the BrowserStorage
\* operation under them succeeded, the caller that branches on the result
\* takes its success branch after a successful operation, and 'Clear Saved
\* Data' then removes the data of the session.
C25_AsStated ==
    (pc = "storage" /\ last_op.name \in Wrappers) =>
        /\ (last_op.ret = "True") <=> (last_op.underlying = "True")
        /\ (last_op.underlying = "True") => (last_op.branch = "success")
        /\ (last_op.name = "clear_browser_data" /\ last_op.underlying = "True")
              => ~session_data

(***************************************************************************)
(* C26: the order of the records and the rows examined                     *)
(***************************************************************************)
HeaderFound == week_row_idx # -1

\* the rows that have passed through the loop are all the rows of the grid
EveryRowExamined == row_idx = Len(data)

\* C26 as stated: Observations are emitted in grid row order and, within one
\* row, in the column order of the header mapping; no Observation comes from
\* the header row or from a row above it; and every row strictly after the
\* header row is examined exactly once, so that when the call is over the
\* loop has passed every row of the grid.
C26_AsStated ==
    /\ []((CallOver /\ HeaderFound) => EveryRowExamined)
    /\ [][RowStepTaken =>
             /\ records' = records \o Appended
             /\ (row_idx <= week_row_idx => Appended = <<>>)
             /\ (Appended # <<>> =>
                    DatesOf(Appended) = WeeksWhere(StepRow, HoldsNonLiteralZero))]_vars

(***************************************************************************)
(* C27: a cell that is no number, and a row that is noise                  *)
(***************************************************************************)
\* the row loop is about to process a row after the header row
RowIsNext == pc = "rows" /\ row_idx < Len(data) /\ row_idx > week_row_idx

\* the text of a label cell
LabelText(cell) == IF Truthy(cell) THEN Strip(PyStr(cell)) ELSE <<>>

\* the row is no Goal row, no Outcome row and carries no known-metric name
IsNoiseRow(row) ==
    \/ Len(row) < 2
    \/ /\ ~StartsWith(LabelText(row[2]), GoalMarker)
       /\ ~StartsWith(LabelText(row[2]), OutcomeMarker)
       /\ ~HoldsKnownName(LabelText(row[2]))

IsValueRow(row) == IsMarkedRow(row, GoalMarker) \/ IsMarkedRow(row, OutcomeMarker)

\* a mapped cell of the row holds something that is no number
HasUnparseableCell(row) ==
    \E k \in 1..Len(week_cols) :
        /\ week_cols[k] < Len(row)
        /\ At(row, week_cols[k]).t = "str"
        /\ At(row, week_cols[k]).s # <<>>
        /\ ~ParseFloat(LocaleText(At(row, week_cols[k]))).ok

\* C27 as stated: in a Goal or Outcome row a value cell that cannot be
\* converted to a number yields no Observation for its week only, the other
\* cells of the row emit their Observations and the parse goes on to the
\* later rows; and a Noise row does not stop the parse either.
C27_AsStated ==
    [][/\ (RowIsNext /\ IsValueRow(StepRow) /\ HasUnparseableCell(StepRow)) =>
              /\ pc' = "rows"
              /\ DatesOf(Appended) = WeeksWhere(StepRow, HoldsNonLiteralZero)
       /\ (RowIsNext /\ IsNoiseRow(StepRow)) => pc' = "rows"]_vars

(***************************************************************************)
(* C28: the Observations of value zero                                     *)
(***************************************************************************)
\* C28 as stated: no Observation emitted by process_data has a value equal
\* to zero.
C28_AsStated == \A k \in 1..Len(records) : records[k].Value # Zero

\* the row emits: a Goal row, an Outcome row, or a row of a known metric
IsKnownMetricRow(row) ==
    Len(row) >= 2 /\ row[2].t = "str" /\ HoldsKnownName(Strip(row[2].s))

IsEmittingStep ==
    /\ RowStepTaken
    /\ row_idx > week_row_idx
    /\ (IsValueRow(StepRow) \/ IsKnownMetricRow(StepRow))

\* a text that is a number equal to zero and is not "0" once ',' is replaced
\* by '.' and the spaces are deleted: "0,0", "0.0", "00", "-0"
IsWrittenZero(cell) ==
    /\ cell.t = "str"
    /\ ParseFloat(LocaleText(cell)).ok
    /\ ParseFloat(LocaleText(cell)).v = Zero
    /\ LocaleText(cell) # <<"0">>

IsZeroRecord(rec) == rec.Value = Zero

ZeroDates(recs) == DatesOf(SelectSeq(recs, IsZeroRecord))

\* C28, amended: no Observation comes from a Goal/Outcome cell that is the
\* number 0 or a text equal to "0" once ',' is replaced by '.' and the spaces
\* are deleted ("0", " 0 "): such a cell is treated as absent.  The
\* Observations of value zero a row emits are those of its cells that write
\* zero in another way ("0,0", "0.0", "00", "-0"), one for each such cell.
C28_LiteralZeroOnly ==
    [][IsEmittingStep => ZeroDates(Appended) = WeeksWhere(StepRow, IsWrittenZero)]_vars

C28_Witness ==
    /\ pc = "rows"
    /\ week_row_idx = 0
    /\ row_idx = 2
    /\ At(data, 1) = <<EmptyCell, StrCell(GoalSales), StrCell(TextZeroPadded), StrCell(TextMinusZero)>>
    /\ records = <<Obs(16, Sales, "Mål", 0)>>

(***************************************************************************)
(* C29: the Observations of one week, category and kind                    *)
(***************************************************************************)
KeyOf(rec) == <<rec.Date, rec.Category, rec.Type>>

\* C29 as stated: process_data emits at most one Observation for each week,
\* category and kind, also when the header row repeats a week number or two
\* rows carry the same label.
C29_AsStated ==
    \A i, j \in 1..Len(records) : KeyOf(records[i]) = KeyOf(records[j]) => i = j

(***************************************************************************)
(* C30: the two methods that compute the series                            *)
(***************************************************************************)
\* the four lists create_metric_comparison computes for the table, the
\* category and the range
MetricSeries(t, cat, xr) ==
    LET cat_df == FilterCategory(prepare_data(t), cat)
        wks == WeekAxis(cat_df, xr)
        kept == InRange(cat_df, xr)
    IN <<XOf(GoalLine(kept, wks)), YOf(GoalLine(kept, wks)),
         XOf(OutcomeLine(kept, wks)), YOf(OutcomeLine(kept, wks))>>

\* the four lists create_category_group_plots draws
GroupSeries(t, cat, xr) ==
    LET cat_df == FilterCategory(prepare_data(t), cat)
        wks == WeekAxis(cat_df, xr)
        kept == GroupInRange(cat_df, xr)
    IN <<XOf(GoalLine(kept, wks)), YOf(GoalLine(kept, wks)),
         XOf(GroupOutcomeLine(kept, wks)), YOf(GroupOutcomeLine(kept, wks))>>

SeriesPlotted == <<goal_x, goal_y, outcome_x, outcome_y>>

\* C30 as stated: for the same data, category and week range the two methods
\* compute the same goal series and the same outcome series (same weeks,
\* same values, each line present in both or in neither), also when the
\* category has observations but none inside the range: what either method
\* has plotted is what the other computes.
C30_AsStated ==
    /\ (Plotted /\ method = "group") =>
           SeriesPlotted = MetricSeries(self_data, category, x_range)
    /\ (Plotted /\ method = "metric") =>
           SeriesPlotted = GroupSeries(self_data, category, x_range)

====
